---- MODULE Spec2Model ----
(***************************************************************************)
(* A model of the FIRRTL backend of yosys (backends/firrtl/firrtl.cc):     *)
(* the identifier allocator (make_id, next_id), the signal printer         *)
(* (make_expr), the cell translator and module walker (FirrtlWorker::run,  *)
(* process_instance) and the driver (FirrtlBackend::execute).              *)
(*                                                                         *)
(* Strings that the code inspects character by character (identifiers)    *)
(* are sequences of one-character strings.  Emitted expressions are trees  *)
(* (records with an operator, arguments and integer parameters); Show      *)
(* renders a tree as the text the code's stringf calls build.              *)
(***************************************************************************)
EXTENDS Integers, Sequences, FiniteSets, TLC

VARIABLES
    used_names,        \* pool<string> used_names          (process-wide)
    namecache,         \* dict<IdString, string> namecache (process-wide)
    autoid_counter,    \* int autoid_counter               (process-wide)
    design,            \* the RTLIL design handed to execute (read-only)
    pc,                \* position inside execute / FirrtlWorker::run
    mi,                \* index of the module being walked
    idx,               \* index of the wire, cell or connection being walked
    reverse_wire_map,  \* FirrtlWorker::reverse_wire_map
    unconn_id,         \* FirrtlWorker::unconn_id
    port_decls,        \* the four buffers of FirrtlWorker::run
    wire_decls,
    cell_exprs,
    wire_exprs,
    f,                 \* the output stream of the current run
    log,               \* log_warning / log_error messages of the current run
    outputs,           \* the finished runs' output streams, oldest first
    issued             \* SpecIds only: the ids returned by direct allocator calls

vars == <<used_names, namecache, autoid_counter, design, pc, mi, idx,
          reverse_wire_map, unconn_id, port_decls, wire_decls, cell_exprs,
          wire_exprs, f, log, outputs, issued>>

globals == <<used_names, namecache, autoid_counter>>
worker  == <<reverse_wire_map, unconn_id, port_decls, wire_decls, cell_exprs, wire_exprs>>

(***************************************************************************)
(* Bounds                                                                  *)
(***************************************************************************)
MaxCalls == 4      \* allocator calls in one behaviour of SpecIds
MaxRuns == 2       \* invocations of execute in one behaviour

(***************************************************************************)
(* Characters and strings                                                  *)
(***************************************************************************)
LowerChars == {"a","b","c","d","e","f","g","h","i","j","k","l","m",
               "n","o","p","q","r","s","t","u","v","w","x","y","z"}
UpperChars == {"A","B","C","D","E","F","G","H","I","J","K","L","M",
               "N","O","P","Q","R","S","T","U","V","W","X","Y","Z"}
DigitChars == {"0","1","2","3","4","5","6","7","8","9"}

RECURSIVE Str(_)
\* a character sequence as one string
Str(s) == IF s = <<>> THEN "" ELSE Head(s) \o Str(Tail(s))

DigitOf(d) == CASE d = 0 -> "0" [] d = 1 -> "1" [] d = 2 -> "2" [] d = 3 -> "3"
                [] d = 4 -> "4" [] d = 5 -> "5" [] d = 6 -> "6" [] d = 7 -> "7"
                [] d = 8 -> "8" [] d = 9 -> "9"

RECURSIVE Dec(_)
\* stringf("%d", n) for n >= 0, as a character sequence
Dec(n) == IF n < 10 THEN <<DigitOf(n)>> ELSE Append(Dec(n \div 10), DigitOf(n % 10))

(***************************************************************************)
(* Identifier sanitizer and allocator                                      *)
(***************************************************************************)
\* the three globals as one value, threaded through the calls of a handler
G == [used |-> used_names, cache |-> namecache, ctr |-> autoid_counter]

EmptyCache == [x \in {} |-> <<>>]

\* log_id(id): the human-readable spelling, the leading escape sigil stripped
log_id(id) == IF Len(id) >= 1 /\ id[1] = "\\" THEN Tail(id) ELSE id

RECURSIVE NextIdLoop(_, _)
\* the while (1) loop of next_id: the first counter value whose "_N" is unused
NextIdLoop(used, ctr) ==
    LET new_id == <<"_">> \o Dec(ctr) IN
    IF new_id \notin used THEN [id |-> new_id, ctr |-> ctr + 1]
    ELSE NextIdLoop(used, ctr + 1)

next_id(g) ==
    LET r == NextIdLoop(g.used, g.ctr) IN
    [g |-> [g EXCEPT !.used = g.used \cup {r.id}, !.ctr = r.ctr], id |-> r.id]

\* the character loop of make_id with the test on the first character left out
SanitizeChar_anyDigit(ch, i) ==
    IF ch \in LowerChars \cup UpperChars \cup DigitChars \cup {"_"} THEN ch ELSE "_"

\* the character loop of make_id
SanitizeChar(ch, i) ==
    IF ch \in LowerChars THEN ch
    ELSE IF ch \in UpperChars THEN ch
    ELSE IF ch \in DigitChars /\ i # 1 THEN ch
    ELSE IF ch = "_" THEN ch
    ELSE "_"

Sanitize(s) == [i \in 1..Len(s) |-> SanitizeChar(s[i], i)]

RECURSIVE Uniquify(_, _)
\* while (used_names.count(new_id) != 0) new_id += '_';
Uniquify(used, new_id) ==
    IF new_id \in used THEN Uniquify(used, Append(new_id, "_")) ELSE new_id

\* make_id without the loop that suffixes a used name
make_id_noSuffix(g, id) ==
    IF id \in DOMAIN g.cache THEN [g |-> g, id |-> g.cache[id]]
    ELSE LET new_id == Sanitize(log_id(id)) IN
         [g |-> [g EXCEPT !.cache = [x \in DOMAIN g.cache \cup {id} |->
                                        IF x = id THEN new_id ELSE g.cache[x]],
                          !.used = g.used \cup {new_id}],
          id |-> new_id]

make_id(g, id) ==
    IF id \in DOMAIN g.cache THEN [g |-> g, id |-> g.cache[id]]
    ELSE LET new_id == Uniquify(g.used, Sanitize(log_id(id))) IN
         [g |-> [g EXCEPT !.cache = [x \in DOMAIN g.cache \cup {id} |->
                                        IF x = id THEN new_id ELSE g.cache[x]],
                          !.used = g.used \cup {new_id}],
          id |-> new_id]

(***************************************************************************)
(* RTLIL input: designs, modules, wires, cells, signals                    *)
(***************************************************************************)
\* RTLIL::SigChunk: a literal (wire = <<>>, data = its bits, LSB first) or a
\* slice of a wire
ConstChunk(bits) == [wire |-> <<>>, offset |-> 0, width |-> Len(bits), data |-> bits]
WireChunk(w, off, n) == [wire |-> w, offset |-> off, width |-> n, data |-> <<>>]

\* RTLIL::Wire
Wire(name, width, input, output) ==
    [name |-> name, width |-> width, port_id |-> IF input \/ output THEN 1 ELSE 0,
     port_input |-> input, port_output |-> output, init |-> FALSE]

\* module->wires_.at(id)
WireOf(m, id) == LET i == CHOOSE i \in 1..Len(m.wires) : m.wires[i].name = id
                 IN m.wires[i]
HasWire(m, id) == \E i \in 1..Len(m.wires) : m.wires[i].name = id

\* GetSize(sig)
RECURSIVE SigSize(_)
SigSize(sig) == IF sig = <<>> THEN 0 ELSE Head(sig).width + SigSize(Tail(sig))

\* RTLIL::SigBit of a chunk: (wire, offset) or a constant state
ChunkBits(c) == [i \in 1..c.width |->
                   IF c.wire = <<>> THEN [wire |-> <<>>, offset |-> 0, data |-> c.data[i]]
                   ELSE [wire |-> c.wire, offset |-> c.offset + i - 1, data |-> ""]]

\* sig[i] for i = 0 .. GetSize(sig)-1, as a sequence
RECURSIVE SigBits(_)
SigBits(sig) == IF sig = <<>> THEN <<>> ELSE ChunkBits(Head(sig)) \o SigBits(Tail(sig))

\* the SigSpec of a sequence of bits: adjacent constants, and adjacent bits of a
\* wire at consecutive offsets, share a chunk
RECURSIVE PackBits(_, _)
PackBits(chunks, bits) ==
    IF bits = <<>> THEN chunks
    ELSE LET b == Head(bits)
             n == Len(chunks)
             last == chunks[n]
             joins == /\ n > 0
                      /\ last.wire = b.wire
                      /\ (b.wire = <<>> \/ last.offset + last.width = b.offset)
         IN PackBits(IF joins
                     THEN [chunks EXCEPT ![n] = [last EXCEPT !.width = last.width + 1,
                                                             !.data = IF b.wire = <<>>
                                                                      THEN Append(last.data, b.data)
                                                                      ELSE <<>>]]
                     ELSE Append(chunks, IF b.wire = <<>> THEN ConstChunk(<<b.data>>)
                                         ELSE WireChunk(b.wire, b.offset, 1)),
                     Tail(bits))

\* sig.extract(offset, length)
extract(sig, offset, length) == PackBits(<<>>, SubSeq(SigBits(sig), offset + 1, offset + length))

\* sig.is_fully_const()
is_fully_const(sig) == \A i \in 1..Len(sig) : sig[i].wire = <<>>

(***************************************************************************)
(* Emitted expressions                                                     *)
(***************************************************************************)
Expr(op, args, ints, name) == [op |-> op, args |-> args, ints |-> ints, name |-> name]
NoExpr == Expr("", <<>>, <<>>, <<>>)            \* the empty string
Ref(id) == Expr("ref", <<>>, <<>>, id)          \* an emitted id
Prim(op, args, ints) == Expr(op, args, ints, <<>>)

RECURSIVE ShowInts(_)
ShowInts(ns) == IF ns = <<>> THEN "" ELSE ", " \o Str(Dec(Head(ns))) \o ShowInts(Tail(ns))

RECURSIVE Show(_)
RECURSIVE ShowArgs(_)
\* the text of an expression, as the code's stringf calls build it
Show(e) ==
    CASE e.op = ""      -> ""
      [] e.op = "ref"   -> Str(e.name)
      [] e.op = "UIntH" -> "UInt<" \o Str(Dec(e.ints[1])) \o ">(\"h" \o Str(e.name) \o "\")"
      [] e.op = "UIntD" -> "UInt<" \o Str(Dec(e.ints[1])) \o ">(" \o Str(Dec(e.ints[2])) \o ")"
      [] e.op = "UInt0" -> "UInt(0)"
      [] e.op = "Int0"  -> Str(e.name) \o "Int<" \o Str(Dec(e.ints[1])) \o ">(0)"
      [] e.op = "ltz"   -> Show(e.args[1]) \o " < 0"
      [] OTHER          -> e.op \o "(" \o ShowArgs(e.args) \o ShowInts(e.ints) \o ")"
ShowArgs(es) == IF es = <<>> THEN ""
                ELSE IF Len(es) = 1 THEN Show(es[1])
                ELSE Show(Head(es)) \o ", " \o ShowArgs(Tail(es))

(***************************************************************************)
(* Signal printer                                                          *)
(***************************************************************************)
HexChar(val) == IF val < 10 THEN DigitOf(val)
                ELSE CASE val = 10 -> "a" [] val = 11 -> "b" [] val = 12 -> "c"
                       [] val = 13 -> "d" [] val = 14 -> "e" [] val = 15 -> "f"

\* while (GetSize(bits) % 4 != 0) bits.push_back(State::S0);
RECURSIVE PadBits(_)
PadBits(bits) == IF Len(bits) % 4 # 0 THEN PadBits(Append(bits, "0")) ELSE bits

\* the nibble with the weights of its two upper bits exchanged
NibbleVal_swapped(bits, i) ==
    (IF bits[i+1] = "1" THEN 1 ELSE 0) + (IF bits[i+2] = "1" THEN 2 ELSE 0)
  + (IF bits[i+3] = "1" THEN 8 ELSE 0) + (IF bits[i+4] = "1" THEN 4 ELSE 0)

\* one iteration of the digit loop: the nibble at bits[i+0 .. i+3] (i counted from 0)
NibbleVal(bits, i) == (IF bits[i+1] = "1" THEN 1 ELSE 0) + (IF bits[i+2] = "1" THEN 2 ELSE 0)
                    + (IF bits[i+3] = "1" THEN 4 ELSE 0) + (IF bits[i+4] = "1" THEN 8 ELSE 0)

\* for (int i = GetSize(bits)-4; i >= 0; i -= 4) new_expr.push_back(...)
RECURSIVE HexDigits(_, _)
HexDigits(bits, i) == IF i < 0 THEN <<>>
                      ELSE <<HexChar(NibbleVal(bits, i))>> \o HexDigits(bits, i - 4)

LiteralExpr(data) ==
    LET bits == PadBits(data) IN
    Expr("UIntH", <<>>, <<Len(data)>>, HexDigits(bits, Len(bits) - 4))

\* the expression of one chunk, and the globals after the make_id it may call
ChunkExpr(g, m, chunk) ==
    IF chunk.wire = <<>> THEN [g |-> g, e |-> LiteralExpr(chunk.data)]
    ELSE LET r == make_id(g, chunk.wire) IN
         IF chunk.offset = 0 /\ chunk.width = WireOf(m, chunk.wire).width
         THEN [g |-> r.g, e |-> Ref(r.id)]
         ELSE [g |-> r.g, e |-> Prim("bits", <<Ref(r.id)>>,
                                     <<chunk.offset + chunk.width - 1, chunk.offset>>)]

RECURSIVE MakeExprLoop_flipped(_, _, _, _)
\* the chunk loop with the arguments of cat exchanged
MakeExprLoop_flipped(g, m, chunks, expr) ==
    IF chunks = <<>> THEN [g |-> g, e |-> expr]
    ELSE LET r == ChunkExpr(g, m, Head(chunks)) IN
         MakeExprLoop_flipped(r.g, m, Tail(chunks),
                              IF expr = NoExpr THEN r.e ELSE Prim("cat", <<expr, r.e>>, <<>>))

RECURSIVE MakeExprLoop(_, _, _, _)
MakeExprLoop(g, m, chunks, expr) ==
    IF chunks = <<>> THEN [g |-> g, e |-> expr]
    ELSE LET r == ChunkExpr(g, m, Head(chunks)) IN
         MakeExprLoop(r.g, m, Tail(chunks),
                      IF expr = NoExpr THEN r.e ELSE Prim("cat", <<r.e, expr>>, <<>>))

\* FirrtlWorker::make_expr
make_expr(g, m, sig) == MakeExprLoop(g, m, sig, NoExpr)

(***************************************************************************)
(* Emitted statements (the lines pushed on the buffers and the stream)     *)
(***************************************************************************)
Stmt(k, id, width, lhs, expr) == [k |-> k, id |-> id, width |-> width, lhs |-> lhs, expr |-> expr]
Decl(k, id, width) == Stmt(k, id, width, NoExpr, NoExpr)       \* input, output, wire
RegDecl(id, width, clk) == Stmt("reg", id, width, NoExpr, clk) \* reg id: UInt<w>, clk
Connect(lhs, expr) == Stmt("connect", <<>>, 0, lhs, expr)      \* lhs <= expr
Invalid(id) == Stmt("invalid", id, 0, NoExpr, NoExpr)          \* id is invalid
Inst(id, of) == Stmt("inst", id, 0, NoExpr, Ref(of))           \* inst id of module
Header(k, id) == Stmt(k, id, 0, NoExpr, NoExpr)                \* circuit id: / module id:
Blank == Stmt("blank", <<>>, 0, NoExpr, NoExpr)

(***************************************************************************)
(* Reverse wire map                                                        *)
(***************************************************************************)
Range(seq) == {seq[i] : i \in 1..Len(seq)}

\* FirrtlWorker::register_reverse_wire_map: a later bit of sig overwrites an earlier
register_reverse_wire_map(rwm, id, sig) ==
    LET bits == SigBits(sig)
        last(b) == CHOOSE i \in 1..Len(bits) :
                     bits[i] = b /\ \A j \in 1..Len(bits) : bits[j] = b => j <= i
    IN [b \in DOMAIN rwm \cup Range(bits) |->
          IF b \in Range(bits) THEN <<id, last(b) - 1>> ELSE rwm[b]]

(***************************************************************************)
(* Cell translator                                                         *)
(***************************************************************************)
FIRRTL_MAX_DSH_WIDTH_ERROR == 20

Pow2(n) == 2^n

\* gen_dshl without the cap
gen_dshl_uncapped(b_expr, b_padded_width) == b_expr

\* gen_dshl saturating one bit too wide
gen_dshl_guardWide(b_expr, b_padded_width) ==
    IF b_padded_width >= FIRRTL_MAX_DSH_WIDTH_ERROR
    THEN LET max_shift_string == Expr("UIntD", <<>>,
                                      <<FIRRTL_MAX_DSH_WIDTH_ERROR,
                                        Pow2(FIRRTL_MAX_DSH_WIDTH_ERROR) - 1>>, <<>>)
         IN Prim("mux", <<Prim("gt", <<b_expr, max_shift_string>>, <<>>),
                          max_shift_string,
                          Prim("bits", <<b_expr>>, <<FIRRTL_MAX_DSH_WIDTH_ERROR - 1, 0>>)>>, <<>>)
    ELSE b_expr

\* FirrtlWorker::gen_dshl
gen_dshl(b_expr, b_padded_width) ==
    IF b_padded_width >= FIRRTL_MAX_DSH_WIDTH_ERROR
    THEN LET max_shift_width_bits == FIRRTL_MAX_DSH_WIDTH_ERROR - 1
             max_shift_string == Expr("UIntD", <<>>,
                                      <<max_shift_width_bits, Pow2(max_shift_width_bits) - 1>>, <<>>)
         IN Prim("mux", <<Prim("gt", <<b_expr, max_shift_string>>, <<>>),
                          max_shift_string,
                          Prim("bits", <<b_expr>>, <<max_shift_width_bits - 1, 0>>)>>, <<>>)
    ELSE b_expr

UnaryTypes == {"$not", "$logic_not", "$neg", "$reduce_and", "$reduce_or", "$reduce_xor",
               "$reduce_bool", "$reduce_xnor"}
BinaryTypes == {"$add", "$sub", "$mul", "$div", "$mod", "$xor", "$and", "$or", "$eq", "$eqx",
                "$gt", "$ge", "$lt", "$le", "$ne", "$nex", "$shr", "$sshr", "$sshl", "$shl",
                "$logic_and", "$logic_or"}
ShiftTypes == {"$shr", "$sshr", "$shl", "$sshl"}
\* the types of the "don't pad" test of the unary operators
LogicalTypes == {"$eq", "$eqx", "$gt", "$ge", "$lt", "$le", "$ne", "$nex", "$reduce_bool",
                 "$logic_not"}

\* what a cell's translation adds: the globals after it, the lines pushed on
\* wire_decls and cell_exprs, and the (id, signal) registered in the reverse map
CellResult(g, decls, exprs, id, sig) ==
    [g |-> g, decls |-> decls, exprs |-> exprs, id |-> id, sig |-> sig]

\* the unary operators: the expression assigned to the result wire
UnaryExpr(cell, a0) ==
    LET type == Str(cell.type)
        is_signed == cell.A_SIGNED
        y_width == cell.Y_WIDTH
        a1 == IF cell.A_SIGNED THEN Prim("asSInt", <<a0>>, <<>>) ELSE a0
        a2 == IF ~(type \in LogicalTypes /\ y_width = 1)
              THEN Prim("pad", <<a1>>, <<y_width>>) ELSE a1
        always_uint == FALSE
        expr == CASE type = "$not" -> Prim("not", <<a2>>, <<>>)
                  [] type = "$neg" -> Prim("neg", <<a2>>, <<>>)
                  [] type = "$logic_not" -> Prim("eq", <<a2, Expr("UInt0", <<>>, <<>>, <<>>)>>, <<>>)
                  [] type = "$reduce_and" -> Prim("andr", <<a2>>, <<>>)
                  [] type = "$reduce_or" -> Prim("orr", <<a2>>, <<>>)
                  [] type = "$reduce_xor" -> Prim("xorr", <<a2>>, <<>>)
                  [] type = "$reduce_xnor" -> Prim("not", <<Prim("xorr", <<a2>>, <<>>)>>, <<>>)
                  [] type = "$reduce_bool" ->
                       Prim("neq", <<a2, Expr("Int0", <<>>, <<cell.A_WIDTH>>,
                                              IF cell.A_SIGNED THEN <<"S">> ELSE <<"U">>)>>, <<>>)
    IN IF is_signed /\ ~always_uint THEN Prim("asUInt", <<expr>>, <<>>) ELSE expr

\* UnaryCell declaring the result wire with the operand's width
UnaryCell_aWidth(g, m, cell) ==
    LET y == make_id(g, cell.name)
        a == make_expr(y.g, m, cell.A)
    IN CellResult(a.g, <<Decl("wire", y.id, cell.A_WIDTH)>>,
                  <<Connect(Ref(y.id), UnaryExpr(cell, a.e))>>, y.id, cell.Y)

UnaryCell(g, m, cell) ==
    LET y == make_id(g, cell.name)
        a == make_expr(y.g, m, cell.A)
    IN CellResult(a.g, <<Decl("wire", y.id, cell.Y_WIDTH)>>,
                  <<Connect(Ref(y.id), UnaryExpr(cell, a.e))>>, y.id, cell.Y)

\* the primop of a binary operator that is no shift
BinaryPrimop(type) ==
    CASE type = "$add" -> "add" [] type = "$sub" -> "sub" [] type = "$mul" -> "mul"
      [] type = "$div" -> "div" [] type = "$mod" -> "rem" [] type = "$and" -> "and"
      [] type = "$or" -> "or" [] type = "$xor" -> "xor"
      [] type \in {"$eq", "$eqx"} -> "eq" [] type \in {"$ne", "$nex"} -> "neq"
      [] type = "$gt" -> "gt" [] type = "$ge" -> "geq" [] type = "$lt" -> "lt"
      [] type = "$le" -> "leq" [] type = "$logic_and" -> "and" [] type = "$logic_or" -> "or"

\* AlwaysUint with no branch setting always_uint
AlwaysUint_none(type) == FALSE

\* the types whose branch sets always_uint
AlwaysUint(type) ==
    type \in {"$and", "$or", "$xor", "$eq", "$eqx", "$ne", "$nex", "$gt", "$ge", "$lt", "$le",
              "$logic_and", "$logic_or"}

\* the binary operators: the expression assigned to the result wire
BinaryExpr(cell, a0, b0) ==
    LET type == Str(cell.type)
        is_signed == cell.A_SIGNED
        y_width == cell.Y_WIDTH
        a1 == IF cell.A_SIGNED THEN Prim("asSInt", <<a0>>, <<>>) ELSE a0
        b1 == IF type \notin ShiftTypes /\ cell.B_SIGNED
              THEN Prim("asSInt", <<b0>>, <<>>) ELSE b0
        b_padded_width == IF type \notin ShiftTypes /\ cell.B_WIDTH < y_width
                          THEN y_width ELSE cell.B_WIDTH
        a2 == IF cell.A_SIGNED /\ type = "$shr" THEN Prim("asUInt", <<a1>>, <<>>) ELSE a1
        left == type \in {"$shl", "$sshl"}
        right == type \in {"$shr", "$sshr"}
        extract_y_bits == left
        primop == IF left THEN (IF is_fully_const(cell.B) THEN "shl" ELSE "dshl")
                  ELSE IF right THEN (IF is_fully_const(cell.B) THEN "shr" ELSE "dshr")
                  ELSE BinaryPrimop(type)
        logic == type \in {"$logic_and", "$logic_or"}
        zero == Expr("UInt0", <<>>, <<>>, <<>>)
        a3 == IF logic THEN Prim("neq", <<a2, zero>>, <<>>) ELSE a2
        b2 == IF left /\ ~is_fully_const(cell.B) THEN gen_dshl(b1, b_padded_width)
              ELSE IF logic THEN Prim("neq", <<b1, zero>>, <<>>) ELSE b1
        b3 == IF ~cell.B_SIGNED THEN Prim("asUInt", <<b2>>, <<>>) ELSE b2
        e1 == Prim(primop, <<a3, b3>>, <<>>)
        e2 == IF extract_y_bits THEN Prim("bits", <<e1>>, <<y_width - 1, 0>>) ELSE e1
    IN IF (is_signed /\ ~AlwaysUint(type)) \/ type = "$sub"
       THEN Prim("asUInt", <<e2>>, <<>>) ELSE e2

BinaryCell(g, m, cell) ==
    LET y == make_id(g, cell.name)
        a == make_expr(y.g, m, cell.A)
        b == make_expr(a.g, m, cell.B)
    IN CellResult(b.g, <<Decl("wire", y.id, cell.Y_WIDTH)>>,
                  <<Connect(Ref(y.id), BinaryExpr(cell, a.e, b.e))>>, y.id, cell.Y)

MuxCell(g, m, cell) ==
    LET y == make_id(g, cell.name)
        a == make_expr(y.g, m, cell.A)
        b == make_expr(a.g, m, cell.B)
        s == make_expr(b.g, m, cell.S)
    IN CellResult(s.g, <<Decl("wire", y.id, cell.WIDTH)>>,
                  <<Connect(Ref(y.id), Prim("mux", <<s.e, b.e, a.e>>, <<>>))>>, y.id, cell.Y)

DffCell(g, m, cell) ==
    LET q == make_id(g, cell.name)
        d == make_expr(q.g, m, cell.D)
        clk == make_expr(d.g, m, cell.CLK)
    IN CellResult(clk.g, <<RegDecl(q.id, cell.WIDTH, Prim("asClock", <<clk.e>>, <<>>))>>,
                  <<Connect(Ref(q.id), d.e)>>, q.id, cell.Q)

ShiftxExpr(cell, a_expr, b0) ==
    LET b_sign == cell.B_WIDTH - 1
        b_expr == IF cell.B_SIGNED
                  THEN Prim("validif", <<Prim("not", <<Prim("bits", <<b0>>, <<b_sign, b_sign>>)>>,
                                              <<>>), b0>>, <<>>)
                  ELSE b0
    IN Prim("dshr", <<a_expr, b_expr>>, <<>>)

ShiftxCell(g, m, cell) ==
    LET y == make_id(g, cell.name)
        a == make_expr(y.g, m, cell.A)
        b == make_expr(a.g, m, cell.B)
    IN CellResult(b.g, <<Decl("wire", y.id, cell.Y_WIDTH)>>,
                  <<Connect(Ref(y.id), ShiftxExpr(cell, a.e, b.e))>>, y.id, cell.Y)

ShiftExpr(cell, a_expr, b_expr) ==
    LET y_width == cell.Y_WIDTH
        b_padded_width == cell.B_WIDTH
        dshl == Prim("bits", <<Prim("dshl", <<a_expr, gen_dshl(b_expr, b_padded_width)>>, <<>>)>>,
                     <<0, y_width>>)
        dshr == Prim("dshr", <<a_expr, b_expr>>, <<>>)
    IN IF cell.B_SIGNED
       THEN Prim("mux", <<Expr("ltz", <<b_expr>>, <<>>, <<>>), dshl, dshr>>, <<>>)
       ELSE dshr

ShiftCell(g, m, cell) ==
    LET y == make_id(g, cell.name)
        a == make_expr(y.g, m, cell.A)
        b == make_expr(a.g, m, cell.B)
    IN CellResult(b.g, <<Decl("wire", y.id, cell.Y_WIDTH)>>,
                  <<Connect(Ref(y.id), ShiftExpr(cell, a.e, b.e))>>, y.id, cell.Y)

\* the lines of a memory declaration and of its ports
MemLine(k, id, n) == Stmt(k, id, n, NoExpr, NoExpr)
UInt1(v) == Expr("UIntD", <<>>, <<1, v>>, <<>>)
MemPort(mem_id, rw, i, field) == Ref(mem_id \o <<".", rw>> \o Dec(i) \o <<".">> \o field)

\* log_error: the first fatal error is the one that ends the run
Fatal(r, what) == [r EXCEPT !.err = what]

RECURSIVE MemReadPorts(_, _, _, _, _)
\* for (int i = 0; i < rd_ports; i++): r holds the globals, the lines pushed on
\* cell_exprs, the reverse wire map and the fatal error, if any
MemReadPorts(r, m, cell, mem_id, i) ==
    IF i >= cell.RD_PORTS \/ r.err # "" THEN r
    ELSE IF cell.RD_CLK_ENABLE[i + 1] # "0" THEN Fatal(r, "Clocked read port")
    ELSE LET data_sig == extract(cell.RD_DATA, i * cell.WIDTH, cell.WIDTH)
             addr == make_expr(r.g, m, extract(cell.RD_ADDR, i * cell.ABITS, cell.ABITS))
         IN MemReadPorts(
                [r EXCEPT !.g = addr.g,
                          !.exprs = r.exprs \o
                             <<Connect(MemPort(mem_id, "r", i, <<"a", "d", "d", "r">>), addr.e),
                               Connect(MemPort(mem_id, "r", i, <<"e", "n">>), UInt1(1)),
                               Connect(MemPort(mem_id, "r", i, <<"c", "l", "k">>),
                                       Prim("asClock", <<UInt1(0)>>, <<>>))>>,
                          !.rwm = register_reverse_wire_map(
                                      r.rwm, mem_id \o <<".", "r">> \o Dec(i)
                                             \o <<".", "d", "a", "t", "a">>, data_sig)],
                m, cell, mem_id, i + 1)

RECURSIVE MemWritePorts(_, _, _, _, _)
\* for (int i = 0; i < wr_ports; i++)
MemWritePorts(r, m, cell, mem_id, i) ==
    IF i >= cell.WR_PORTS \/ r.err # "" THEN r
    ELSE IF cell.WR_CLK_ENABLE[i + 1] # "1" THEN Fatal(r, "Unclocked write port")
    ELSE IF cell.WR_CLK_POLARITY[i + 1] # "1" THEN Fatal(r, "Negedge write port")
    ELSE LET addr == make_expr(r.g, m, extract(cell.WR_ADDR, i * cell.ABITS, cell.ABITS))
             data == make_expr(addr.g, m, extract(cell.WR_DATA, i * cell.WIDTH, cell.WIDTH))
             clk == make_expr(data.g, m, extract(cell.WR_CLK, i, 1))
             wen_sig == SigBits(extract(cell.WR_EN, i * cell.WIDTH, cell.WIDTH))
             wen == make_expr(clk.g, m, PackBits(<<>>, <<wen_sig[1]>>))
         IN IF \E j \in 2..Len(wen_sig) : wen_sig[1] # wen_sig[j]
            THEN Fatal([r EXCEPT !.g = wen.g], "Complex write enable")
            ELSE MemWritePorts(
                     [r EXCEPT !.g = wen.g,
                               !.exprs = r.exprs \o
                                  <<Connect(MemPort(mem_id, "w", i, <<"a", "d", "d", "r">>), addr.e),
                                    Connect(MemPort(mem_id, "w", i, <<"d", "a", "t", "a">>), data.e),
                                    Connect(MemPort(mem_id, "w", i, <<"e", "n">>), wen.e),
                                    Connect(MemPort(mem_id, "w", i, <<"m", "a", "s", "k">>), UInt1(1)),
                                    Connect(MemPort(mem_id, "w", i, <<"c", "l", "k">>),
                                            Prim("asClock", <<clk.e>>, <<>>))>>],
                     m, cell, mem_id, i + 1)

\* the $mem branch: the globals, the lines pushed on cell_exprs and the reverse
\* wire map when it ends, and the fatal error that ended it ("" for none)
MemCell(g, rwm, m, cell) ==
    LET y == make_id(g, cell.name)
        mem_id == y.id
        r0 == [g |-> y.g, exprs |-> <<>>, rwm |-> rwm, err |-> ""]
        ports(n, k, rw) == [i \in 1..n |-> MemLine(k, <<rw>> \o Dec(i - 1), 0)]
    IN IF \E i \in 1..Len(cell.INIT) : cell.INIT[i] # "x"
       THEN Fatal(r0, "Memory with initialization data")
       ELSE IF cell.OFFSET # 0 THEN Fatal(r0, "Memory with nonzero offset")
       ELSE MemWritePorts(
                MemReadPorts(
                    [r0 EXCEPT !.exprs =
                         <<MemLine("mem", mem_id, 0),
                           MemLine("data-type", <<>>, cell.WIDTH),
                           MemLine("depth", <<>>, cell.SIZE)>>
                         \o ports(cell.RD_PORTS, "reader", "r")
                         \o ports(cell.WR_PORTS, "writer", "w")
                         \o <<MemLine("read-latency", <<>>, 0),
                              MemLine("write-latency", <<>>, 1),
                              MemLine("read-under-write", <<>>, 0)>>],
                    m, cell, mem_id, 0),
                m, cell, mem_id, 0)

(***************************************************************************)
(* Subcircuit instances                                                    *)
(***************************************************************************)
FD_NODIRECTION == 0
FD_IN == 1
FD_OUT == 2
FD_INOUT == 3

\* getPortFDirection looking at port_input only
getPortFDirection_inputOnly(id, module) ==
    LET wire == WireOf(module, id) IN
    IF wire.port_id # 0 /\ wire.port_input THEN FD_IN ELSE FD_NODIRECTION

\* getPortFDirection, for a port the callee has a wire for
getPortFDirection(id, module) ==
    LET wire == WireOf(module, id) IN
    IF wire.port_id # 0
    THEN (IF wire.port_input THEN FD_IN ELSE 0) + (IF wire.port_output THEN FD_OUT ELSE 0)
    ELSE FD_NODIRECTION

\* design->module(name) falling back on the first module
ModuleIndex_fallback(d, name) ==
    IF \E i \in 1..Len(d.modules) : d.modules[i].name = name
    THEN CHOOSE i \in 1..Len(d.modules) : d.modules[i].name = name
    ELSE 1

\* design->module(name): the index of the module of that name, 0 when there is none
ModuleIndex(d, name) ==
    IF \E i \in 1..Len(d.modules) : d.modules[i].name = name
    THEN CHOOSE i \in 1..Len(d.modules) : d.modules[i].name = name
    ELSE 0

Msg(level, what) == [level |-> level, what |-> what]

\* the switch that builds instanceOf from the sanitized type of a $paramod cell
ParamodChar(ch) == IF ch \in {"\\", "=", "'", "$"} THEN "_" ELSE ch

IsParamod(type) == Len(type) >= 8 /\ Str(SubSeq(type, 1, 8)) = "$paramod"

RECURSIVE InstanceConns(_, _, _, _, _, _)
\* the loop over cell->connections(): r holds the globals, the lines pushed on
\* wire_exprs, the log and whether the walk was aborted
InstanceConns(r, m, instModule, cell_name, cell_type, conns) ==
    IF conns = <<>> \/ r.err THEN r
    ELSE LET it == Head(conns) IN
         IF SigSize(it.sig) > 0
         THEN LET p == make_id(r.g, it.port)
                  firstName == Ref(cell_name \o <<".">> \o p.id)
                  second == make_expr(p.g, m, it.sig)
                  secondName == second.e
              IN IF ~HasWire(instModule, it.port)
                 THEN [r EXCEPT !.g = second.g, !.err = TRUE,
                                !.log = Append(r.log, Msg("error", "no such port in the callee"))]
                 ELSE LET dir == getPortFDirection(it.port, instModule)
                          out == dir \in {FD_INOUT, FD_OUT}
                          warn == IF dir = FD_INOUT
                                  THEN <<Msg("warning", "instance port is INOUT; treating as OUT")>>
                                  ELSE IF dir = FD_NODIRECTION
                                  THEN <<Msg("warning", "instance port is NODIRECTION; treating as IN")>>
                                  ELSE <<>>
                          source == IF out THEN firstName ELSE secondName
                          sink == IF out THEN secondName ELSE firstName
                      IN InstanceConns([r EXCEPT !.g = second.g,
                                                 !.wexprs = Append(r.wexprs, Connect(sink, source)),
                                                 !.log = r.log \o warn],
                                       m, instModule, cell_name, cell_type, Tail(conns))
         ELSE InstanceConns(r, m, instModule, cell_name, cell_type, Tail(conns))

\* FirrtlWorker::process_instance
process_instance(g, d, m, cell) ==
    LET t == make_id(g, cell.type)
        cell_type == t.id
        instanceOf == IF IsParamod(cell.type)
                      THEN [i \in 1..Len(cell_type) |-> ParamodChar(cell_type[i])]
                      ELSE cell_type
        n == make_id(t.g, cell.name)
        cell_name == n.id
        k == ModuleIndex(d, cell.type)
    IN IF k = 0
       THEN [g |-> n.g, wexprs |-> <<>>, err |-> FALSE,
             log |-> <<Msg("warning", "no instance for the cell")>>]
       ELSE LET r == InstanceConns([g |-> n.g, wexprs |-> <<Inst(cell_name, instanceOf)>>,
                                    err |-> FALSE, log |-> <<>>],
                                   m, d.modules[k], cell_name, cell_type, cell.conns)
            IN IF r.err THEN r ELSE [r EXCEPT !.wexprs = Append(r.wexprs, Blank)]

(***************************************************************************)
(* Module walker: the wires, the connections, the reassembly of the wires  *)
(***************************************************************************)
RECURSIVE WireDecls(_, _, _)
\* the first loop of run: r holds the globals, port_decls, wire_decls, the log
\* and whether log_error ended the run
WireDecls(r, m, wires) ==
    IF wires = <<>> \/ r.err THEN r
    ELSE LET wire == Head(wires)
             n == make_id(r.g, wire.name)
             warn == IF wire.init THEN <<Msg("warning", "initial value not supported")>> ELSE <<>>
         IN IF wire.port_id # 0
            THEN IF wire.port_input /\ wire.port_output
                 THEN [r EXCEPT !.g = n.g, !.err = TRUE,
                                !.log = r.log \o warn \o <<Msg("error", "module port is inout")>>]
                 ELSE WireDecls([r EXCEPT !.g = n.g, !.log = r.log \o warn,
                                   !.ports = Append(r.ports,
                                        Decl(IF wire.port_input THEN "input" ELSE "output",
                                             n.id, wire.width))],
                                m, Tail(wires))
            ELSE WireDecls([r EXCEPT !.g = n.g, !.log = r.log \o warn,
                                     !.wires = Append(r.wires, Decl("wire", n.id, wire.width))],
                           m, Tail(wires))

\* one connection of module->connections()
ConnStep(g, m, conn) ==
    LET y == next_id(g)
        e == make_expr(y.g, m, conn.second)
    IN CellResult(e.g, <<Decl("wire", y.id, SigSize(conn.first))>>,
                  <<Connect(Ref(y.id), e.e)>>, y.id, conn.first)

SigBit(wire, offset) == [wire |-> wire.name, offset |-> offset, data |-> ""]

\* the inner while loop never extending the run
ChunkWidth_single(rwm, wire, cursor, start_map, chunk_width) == chunk_width

RECURSIVE ChunkWidth(_, _, _, _, _)
\* the inner while loop: how far the run that starts at cursor extends
ChunkWidth(rwm, wire, cursor, start_map, chunk_width) ==
    IF cursor + chunk_width < wire.width
    THEN LET stop_bit == SigBit(wire, cursor + chunk_width) IN
         IF stop_bit \notin DOMAIN rwm THEN chunk_width
         ELSE LET stop_map == <<rwm[stop_bit][1], rwm[stop_bit][2] - chunk_width>> IN
              IF start_map # stop_map THEN chunk_width
              ELSE ChunkWidth(rwm, wire, cursor, start_map, chunk_width + 1)
    ELSE chunk_width

RECURSIVE WireWalk(_, _, _, _)
\* the while (cursor < wire->width) loop: r holds the globals, unconn_id, expr,
\* is_valid and make_unconn_id
WireWalk(r, rwm, wire, cursor) ==
    IF cursor < wire.width
    THEN LET start_bit == SigBit(wire, cursor) IN
         IF start_bit \in DOMAIN rwm
         THEN LET start_map == rwm[start_bit]
                  chunk_width == ChunkWidth(rwm, wire, cursor, start_map, 1)
                  new_expr == Prim("bits", <<Ref(start_map[1])>>,
                                   <<start_map[2] + chunk_width - 1, start_map[2]>>)
              IN WireWalk([r EXCEPT !.is_valid = TRUE,
                                    !.expr = IF r.expr = NoExpr THEN new_expr
                                             ELSE Prim("cat", <<new_expr, r.expr>>, <<>>)],
                          rwm, wire, cursor + chunk_width)
         ELSE LET fresh == r.unconn_id = <<>>
                  u == IF fresh THEN next_id(r.g) ELSE [g |-> r.g, id |-> r.unconn_id]
                  new_expr == Ref(u.id)
              IN WireWalk([r EXCEPT !.g = u.g, !.unconn_id = u.id,
                                    !.make_unconn_id = r.make_unconn_id \/ fresh,
                                    !.expr = IF r.expr = NoExpr THEN new_expr
                                             ELSE Prim("cat", <<new_expr, r.expr>>, <<>>)],
                          rwm, wire, cursor + 1)
    ELSE r

\* WireStep keeping unconn_id when the wire has no driver at all
WireStep_keepUnconn(g, rwm, unconn, wire) ==
    IF wire.port_input
    THEN [g |-> g, unconn_id |-> unconn, decls |-> <<>>, wexprs |-> <<>>]
    ELSE LET r == WireWalk([g |-> g, unconn_id |-> unconn, expr |-> NoExpr,
                            is_valid |-> FALSE, make_unconn_id |-> FALSE], rwm, wire, 0)
             n == make_id(r.g, wire.name)
         IN IF r.is_valid
            THEN [g |-> n.g, unconn_id |-> r.unconn_id,
                  decls |-> IF r.make_unconn_id
                            THEN <<Decl("wire", r.unconn_id, 1), Invalid(r.unconn_id)>>
                            ELSE <<>>,
                  wexprs |-> <<Connect(Ref(n.id), r.expr)>>]
            ELSE [g |-> n.g, unconn_id |-> r.unconn_id,
                  decls |-> <<Invalid(n.id)>>, wexprs |-> <<>>]

\* one wire of the last loop of run: the globals and unconn_id after it, and the
\* lines pushed on wire_decls and wire_exprs
WireStep(g, rwm, unconn, wire) ==
    IF wire.port_input
    THEN [g |-> g, unconn_id |-> unconn, decls |-> <<>>, wexprs |-> <<>>]
    ELSE LET r == WireWalk([g |-> g, unconn_id |-> unconn, expr |-> NoExpr,
                            is_valid |-> FALSE, make_unconn_id |-> FALSE], rwm, wire, 0)
             n == make_id(r.g, wire.name)
         IN IF r.is_valid
            THEN [g |-> n.g, unconn_id |-> r.unconn_id,
                  decls |-> IF r.make_unconn_id
                            THEN <<Decl("wire", r.unconn_id, 1), Invalid(r.unconn_id)>>
                            ELSE <<>>,
                  wexprs |-> <<Connect(Ref(n.id), r.expr)>>]
            ELSE [g |-> n.g,
                  unconn_id |-> IF r.make_unconn_id THEN <<>> ELSE r.unconn_id,
                  decls |-> <<Invalid(n.id)>>, wexprs |-> <<>>]

(***************************************************************************)
(* Driver                                                                  *)
(***************************************************************************)
RECURSIVE SeedPorts(_, _)
\* for (auto wire : module->wires()) if (wire->port_id) make_id(wire->name);
SeedPorts(g, wires) ==
    IF wires = <<>> THEN g
    ELSE SeedPorts(IF Head(wires).port_id # 0 THEN make_id(g, Head(wires).name).g ELSE g,
                   Tail(wires))

RECURSIVE SeedModules(_, _, _)
\* the loop of execute that generates module and port names and finds the top:
\* r holds the globals, top and last (module indices, 0 for nullptr)
SeedModules(r, d, i) ==
    IF i > Len(d.modules) THEN r
    ELSE LET module == d.modules[i]
             n == make_id(r.g, module.name)
         IN SeedModules([g |-> SeedPorts(n.g, module.wires),
                         last |-> i,
                         top |-> IF r.top = 0 /\ module.top THEN i ELSE r.top],
                        d, i + 1)

(***************************************************************************)
(* Cell dispatch of FirrtlWorker::run, in the order of its tests           *)
(***************************************************************************)
CellKind(cell) ==
    LET type == Str(cell.type) IN
    IF cell.type[1] # "$" THEN "instance"
    ELSE IF type \in UnaryTypes THEN "unary"
    ELSE IF type \in BinaryTypes THEN "binary"
    ELSE IF type = "$mux" THEN "mux"
    ELSE IF type = "$mem" THEN "mem"
    ELSE IF type \in {"$memwr", "$memrd"} THEN "memport"
    ELSE IF type = "$dff" THEN "dff"
    ELSE IF IsParamod(cell.type) THEN "instance"
    ELSE IF type = "$shiftx" THEN "shiftx"
    ELSE IF type = "$shift" THEN "shift"
    ELSE "unknown"

(***************************************************************************)
(* The state machine                                                       *)
(***************************************************************************)
Module == design.modules[mi]
NCells == Len(Module.cells)
NConns == Len(Module.conns)
NWires == Len(Module.wires)

SetGlobals(g) == /\ used_names' = g.used
                 /\ namecache' = g.cache
                 /\ autoid_counter' = g.ctr

EmptyMap == [b \in {} |-> <<>>]

\* FirrtlBackend::execute up to the circuit header
Execute_Entry ==
    /\ pc = "idle"
    /\ Len(outputs) < MaxRuns
    /\ LET g0 == [used |-> used_names, cache |-> EmptyCache, ctr |-> 0]
           r == SeedModules([g |-> g0, last |-> 0, top |-> design.top], design, 1)
           top == IF r.top = 0 THEN r.last ELSE r.top
           n == make_id(r.g, design.modules[top].name)
       IN /\ SetGlobals(n.g)
          /\ f' = <<Header("circuit", n.id)>>
    /\ log' = <<>>
    /\ pc' = "wires"
    /\ mi' = 1
    /\ idx' = 0
    /\ reverse_wire_map' = EmptyMap
    /\ unconn_id' = <<>>
    /\ port_decls' = <<>>
    /\ wire_decls' = <<>>
    /\ cell_exprs' = <<>>
    /\ wire_exprs' = <<>>
    /\ UNCHANGED <<design, outputs, issued>>

\* FirrtlWorker::run: the module header and the loop over the wires
Run_Wires ==
    /\ pc = "wires"
    /\ LET n == make_id(G, Module.name)
           r == WireDecls([g |-> n.g, ports |-> <<>>, wires |-> <<>>, log |-> <<>>,
                           err |-> FALSE], Module, Module.wires)
       IN /\ SetGlobals(r.g)
          /\ f' = Append(f, Header("module", n.id))
          /\ port_decls' = r.ports
          /\ wire_decls' = r.wires
          /\ log' = log \o r.log
          /\ pc' = IF r.err THEN "error" ELSE "run"
    /\ idx' = 1
    /\ UNCHANGED <<design, mi, reverse_wire_map, unconn_id, cell_exprs, wire_exprs,
                   outputs, issued>>

AtCell(kind) == /\ pc = "run"
                /\ idx <= NCells
                /\ CellKind(Module.cells[idx]) = kind

\* what the primitive cells share: push the lines, register the result
ApplyCell(r) ==
    /\ SetGlobals(r.g)
    /\ wire_decls' = wire_decls \o r.decls
    /\ cell_exprs' = cell_exprs \o r.exprs
    /\ reverse_wire_map' = register_reverse_wire_map(reverse_wire_map, r.id, r.sig)
    /\ idx' = idx + 1
    /\ UNCHANGED <<design, pc, mi, unconn_id, port_decls, wire_exprs, f, log, outputs, issued>>

Run_Instance ==
    /\ AtCell("instance")
    /\ LET r == process_instance(G, design, Module, Module.cells[idx])
       IN /\ SetGlobals(r.g)
          /\ wire_exprs' = wire_exprs \o r.wexprs
          /\ log' = log \o r.log
          /\ pc' = IF r.err THEN "error" ELSE pc
    /\ idx' = idx + 1
    /\ UNCHANGED <<design, mi, reverse_wire_map, unconn_id, port_decls, wire_decls,
                   cell_exprs, f, outputs, issued>>

Run_Unary == AtCell("unary") /\ ApplyCell(UnaryCell(G, Module, Module.cells[idx]))

Run_Binary == AtCell("binary") /\ ApplyCell(BinaryCell(G, Module, Module.cells[idx]))

Run_Mux == AtCell("mux") /\ ApplyCell(MuxCell(G, Module, Module.cells[idx]))

Run_Mem ==
    /\ AtCell("mem")
    /\ LET r == MemCell(G, reverse_wire_map, Module, Module.cells[idx])
       IN /\ SetGlobals(r.g)
          /\ cell_exprs' = cell_exprs \o r.exprs
          /\ reverse_wire_map' = r.rwm
          /\ IF r.err # ""
             THEN /\ log' = Append(log, Msg("error", r.err))
                  /\ pc' = "error"
                  /\ idx' = idx
             ELSE /\ idx' = idx + 1
                  /\ UNCHANGED <<log, pc>>
    /\ UNCHANGED <<design, mi, unconn_id, port_decls, wire_decls, wire_exprs, f, outputs, issued>>

\* $memwr, $memrd: two ids are made, nothing is emitted
Run_MemPort ==
    /\ AtCell("memport")
    /\ SetGlobals(make_id(make_id(G, Module.cells[idx].type).g, Module.cells[idx].name).g)
    /\ idx' = idx + 1
    /\ UNCHANGED <<design, pc, mi, worker, f, log, outputs, issued>>

Run_Dff ==
    /\ AtCell("dff")
    /\ IF ~Module.cells[idx].CLK_POLARITY
       THEN /\ log' = Append(log, Msg("error", "negative edge clock on FF"))
            /\ pc' = "error"
            /\ UNCHANGED <<globals, design, mi, idx, worker, f, outputs, issued>>
       ELSE ApplyCell(DffCell(G, Module, Module.cells[idx]))

Run_Shiftx == AtCell("shiftx") /\ ApplyCell(ShiftxCell(G, Module, Module.cells[idx]))

Run_Shift == AtCell("shift") /\ ApplyCell(ShiftCell(G, Module, Module.cells[idx]))

Run_Unknown ==
    /\ AtCell("unknown")
    /\ log' = Append(log, Msg("warning", "cell type not supported"))
    /\ idx' = idx + 1
    /\ UNCHANGED <<globals, design, pc, mi, worker, f, outputs, issued>>

\* the loop over module->connections()
Run_Conn ==
    /\ pc = "run"
    /\ idx > NCells
    /\ idx <= NCells + NConns
    /\ ApplyCell(ConnStep(G, Module, Module.conns[idx - NCells]))

\* the last loop of run, over the wires
Run_WireExpr ==
    /\ pc = "run"
    /\ idx > NCells + NConns
    /\ idx <= NCells + NConns + NWires
    /\ LET r == WireStep(G, reverse_wire_map, unconn_id, Module.wires[idx - NCells - NConns])
       IN /\ SetGlobals(r.g)
          /\ unconn_id' = r.unconn_id
          /\ wire_decls' = wire_decls \o r.decls
          /\ wire_exprs' = wire_exprs \o r.wexprs
    /\ idx' = idx + 1
    /\ UNCHANGED <<design, pc, mi, reverse_wire_map, port_decls, cell_exprs, f, log,
                   outputs, issued>>

\* the flush with the wire expressions written before the cell expressions
Flushed_exprsSwapped == port_decls \o <<Blank>> \o wire_decls \o <<Blank>> \o wire_exprs
                        \o <<Blank>> \o cell_exprs

\* the module as flushed: ports, wires, cell expressions, wire expressions
Flushed == port_decls \o <<Blank>> \o wire_decls \o <<Blank>> \o cell_exprs \o <<Blank>>
           \o wire_exprs

\* the end of run; execute goes on with the next module's worker, if any
Run_Flush ==
    /\ pc = "run"
    /\ idx = NCells + NConns + NWires + 1
    /\ f' = f \o Flushed
    /\ IF mi < Len(design.modules)
       THEN /\ mi' = mi + 1
            /\ pc' = "wires"
       ELSE /\ mi' = mi
            /\ pc' = "exit"
    /\ idx' = 0
    /\ reverse_wire_map' = EmptyMap
    /\ unconn_id' = <<>>
    /\ port_decls' = <<>>
    /\ wire_decls' = <<>>
    /\ cell_exprs' = <<>>
    /\ wire_exprs' = <<>>
    /\ UNCHANGED <<globals, design, log, outputs, issued>>

\* the last two statements of execute
Execute_Exit ==
    /\ pc = "exit"
    /\ namecache' = EmptyCache
    /\ autoid_counter' = 0
    /\ outputs' = Append(outputs, f)
    /\ pc' = "idle"
    /\ UNCHANGED <<used_names, design, mi, idx, worker, f, log, issued>>

Next == \/ Execute_Entry
        \/ Run_Wires
        \/ Run_Instance
        \/ Run_Unary
        \/ Run_Binary
        \/ Run_Mux
        \/ Run_Mem
        \/ Run_MemPort
        \/ Run_Dff
        \/ Run_Shiftx
        \/ Run_Shift
        \/ Run_Unknown
        \/ Run_Conn
        \/ Run_WireExpr
        \/ Run_Flush
        \/ Execute_Exit

(***************************************************************************)
(* The designs the translator is run on                                    *)
(***************************************************************************)
MaxWidth == 2     \* widths of the ports of the primitive cells: 1..MaxWidth

Widths == 1..MaxWidth
\* shift-amount widths around the dshl cap
BigWidths == {19, 20, 21, 32}

\* the IdString of a cell type
TypeId(t) ==
    CASE t = "$not" -> <<"$","n","o","t">>
      [] t = "$logic_not" -> <<"$","l","o","g","i","c","_","n","o","t">>
      [] t = "$neg" -> <<"$","n","e","g">>
      [] t = "$reduce_and" -> <<"$","r","e","d","u","c","e","_","a","n","d">>
      [] t = "$reduce_or" -> <<"$","r","e","d","u","c","e","_","o","r">>
      [] t = "$reduce_xor" -> <<"$","r","e","d","u","c","e","_","x","o","r">>
      [] t = "$reduce_bool" -> <<"$","r","e","d","u","c","e","_","b","o","o","l">>
      [] t = "$reduce_xnor" -> <<"$","r","e","d","u","c","e","_","x","n","o","r">>
      [] t = "$mem" -> <<"$","m","e","m">>
      [] t = "$add" -> <<"$","a","d","d">>
      [] t = "$sub" -> <<"$","s","u","b">>
      [] t = "$mul" -> <<"$","m","u","l">>
      [] t = "$div" -> <<"$","d","i","v">>
      [] t = "$mod" -> <<"$","m","o","d">>
      [] t = "$xor" -> <<"$","x","o","r">>
      [] t = "$and" -> <<"$","a","n","d">>
      [] t = "$or" -> <<"$","o","r">>
      [] t = "$eq" -> <<"$","e","q">>
      [] t = "$eqx" -> <<"$","e","q","x">>
      [] t = "$gt" -> <<"$","g","t">>
      [] t = "$ge" -> <<"$","g","e">>
      [] t = "$lt" -> <<"$","l","t">>
      [] t = "$le" -> <<"$","l","e">>
      [] t = "$ne" -> <<"$","n","e">>
      [] t = "$nex" -> <<"$","n","e","x">>
      [] t = "$shr" -> <<"$","s","h","r">>
      [] t = "$sshr" -> <<"$","s","s","h","r">>
      [] t = "$sshl" -> <<"$","s","s","h","l">>
      [] t = "$shl" -> <<"$","s","h","l">>
      [] t = "$logic_and" -> <<"$","l","o","g","i","c","_","a","n","d">>
      [] t = "$logic_or" -> <<"$","l","o","g","i","c","_","o","r">>
      [] t = "$mux" -> <<"$","m","u","x">>
      [] t = "$dff" -> <<"$","d","f","f">>
      [] t = "$memwr" -> <<"$","m","e","m","w","r">>
      [] t = "$memrd" -> <<"$","m","e","m","r","d">>
      [] t = "$shiftx" -> <<"$","s","h","i","f","t","x">>
      [] t = "$shift" -> <<"$","s","h","i","f","t">>
      [] t = "$foo" -> <<"$","f","o","o">>

IdA == <<"\\", "a">>
IdB == <<"\\", "b">>
IdS == <<"\\", "s">>
IdY == <<"\\", "y">>
IdW == <<"\\", "w">>
IdD == <<"\\", "d">>
IdQ == <<"\\", "q">>
IdClk == <<"\\", "c", "l", "k">>
IdTop == <<"\\", "t", "o", "p">>
IdSub == <<"\\", "s", "u", "b">>
IdGone == <<"\\", "f", "o", "o", "_", "m", "o", "d">>
IdCell == <<"$", "0">>
IdU0 == <<"\\", "U", "0">>
IdI == <<"\\", "i">>
IdO == <<"\\", "o">>

Whole(w, n) == <<WireChunk(w, 0, n)>>

\* the bits of value v in n bits, LSB first
ConstBits(v, n) == [i \in 1..n |-> IF (v \div Pow2(i - 1)) % 2 = 1 THEN "1" ELSE "0"]

Cell(name, type) ==
    [name |-> name, type |-> type, A_SIGNED |-> FALSE, B_SIGNED |-> FALSE,
     A_WIDTH |-> 0, B_WIDTH |-> 0, Y_WIDTH |-> 0, WIDTH |-> 0, CLK_POLARITY |-> TRUE,
     A |-> <<>>, B |-> <<>>, Y |-> <<>>, S |-> <<>>, D |-> <<>>, Q |-> <<>>, CLK |-> <<>>,
     ABITS |-> 0, SIZE |-> 0, RD_PORTS |-> 0, WR_PORTS |-> 0, OFFSET |-> 0, INIT |-> <<>>,
     RD_CLK_ENABLE |-> <<>>, WR_CLK_ENABLE |-> <<>>, WR_CLK_POLARITY |-> <<>>,
     RD_ADDR |-> <<>>, RD_DATA |-> <<>>, WR_ADDR |-> <<>>, WR_DATA |-> <<>>,
     WR_CLK |-> <<>>, WR_EN |-> <<>>,
     conns |-> <<>>]

Mod(name, wires, cells, conns, top) ==
    [name |-> name, wires |-> wires, cells |-> cells, conns |-> conns, top |-> top]

OneModule(wires, cells, conns) ==
    [modules |-> <<Mod(IdTop, wires, cells, conns, TRUE)>>, top |-> 1]

\* a module with one unary cell
UnaryDesign(t, as, aw, yw) ==
    OneModule(<<Wire(IdA, aw, TRUE, FALSE), Wire(IdY, yw, FALSE, TRUE)>>,
              <<[Cell(IdCell, TypeId(t)) EXCEPT !.A_SIGNED = as, !.A_WIDTH = aw, !.Y_WIDTH = yw,
                                                !.A = Whole(IdA, aw), !.Y = Whole(IdY, yw)]>>,
              <<>>)

\* a module with one cell that has ports A, B and Y; B is wire b, or the literal bconst
TwoPortDesign(t, as, bs, aw, bw, yw, bconst) ==
    OneModule(<<Wire(IdA, aw, TRUE, FALSE), Wire(IdB, bw, TRUE, FALSE),
                Wire(IdY, yw, FALSE, TRUE)>>,
              <<[Cell(IdCell, TypeId(t)) EXCEPT !.A_SIGNED = as, !.B_SIGNED = bs,
                     !.A_WIDTH = aw, !.B_WIDTH = bw, !.Y_WIDTH = yw,
                     !.A = Whole(IdA, aw), !.Y = Whole(IdY, yw),
                     !.B = IF bconst = <<>> THEN Whole(IdB, bw) ELSE <<ConstChunk(bconst)>>]>>,
              <<>>)

UnaryDesigns == {UnaryDesign(t, as, aw, yw) :
                   t \in UnaryTypes, as \in BOOLEAN, aw \in Widths, yw \in Widths}

ArithDesigns == {TwoPortDesign(t, as, bs, w, w, yw, <<>>) :
                   t \in BinaryTypes \ ShiftTypes, as \in BOOLEAN, bs \in BOOLEAN,
                   w \in Widths, yw \in Widths}

\* shifts by a wire, the result up to one bit wider than the bound
ShiftDesigns == {TwoPortDesign(t, as, bs, aw, bw, yw, <<>>) :
                   t \in ShiftTypes \cup {"$shift", "$shiftx"}, as \in BOOLEAN, bs \in BOOLEAN,
                   aw \in Widths, bw \in Widths, yw \in 1..(MaxWidth + 1)}

\* shifts by a constant: 0, 1 or all ones
ConstShiftDesigns == {TwoPortDesign(t, as, FALSE, aw, bw, yw, ConstBits(v, bw)) :
                        t \in ShiftTypes, as \in BOOLEAN, aw \in Widths, bw \in Widths,
                        yw \in Widths, v \in {0, 1, 3}}

\* left shifts by a wide amount
BigShiftDesigns == {TwoPortDesign(t, as, bs, 4, bw, 8, <<>>) :
                      t \in {"$shl", "$sshl", "$shift"}, as \in BOOLEAN, bs \in BOOLEAN,
                      bw \in BigWidths}

MuxDesigns == {OneModule(<<Wire(IdA, w, TRUE, FALSE), Wire(IdB, w, TRUE, FALSE),
                           Wire(IdS, 1, TRUE, FALSE), Wire(IdY, w, FALSE, TRUE)>>,
                         <<[Cell(IdCell, TypeId("$mux")) EXCEPT !.WIDTH = w,
                                !.A = Whole(IdA, w), !.B = Whole(IdB, w),
                                !.S = Whole(IdS, 1), !.Y = Whole(IdY, w)]>>,
                         <<>>) : w \in Widths}

DffDesigns == {OneModule(<<Wire(IdD, w, TRUE, FALSE), Wire(IdClk, 1, TRUE, FALSE),
                           Wire(IdQ, w, FALSE, TRUE)>>,
                         <<[Cell(IdCell, TypeId("$dff")) EXCEPT !.WIDTH = w, !.CLK_POLARITY = pol,
                                !.D = Whole(IdD, w), !.CLK = Whole(IdClk, 1),
                                !.Q = Whole(IdQ, w)]>>,
                         <<>>) : w \in Widths, pol \in BOOLEAN}

OtherCellDesigns == {OneModule(<<Wire(IdA, 1, TRUE, FALSE), Wire(IdY, 1, FALSE, TRUE)>>,
                               <<Cell(IdCell, TypeId(t))>>, <<>>) :
                       t \in {"$memwr", "$memrd", "$foo"}}

\* a module with one memory of two words of two bits: rd read ports (addresses
\* a[i], data q[2i+1:2i]) and wr write ports (address a[0], data d, clock clk,
\* enable s[0] twice or s[1:0])
MemDesign(rd, wr, init, offset, rce, wce, wcp, uniform) ==
    OneModule(<<Wire(IdA, 2, TRUE, FALSE), Wire(IdD, 2, TRUE, FALSE),
                Wire(IdClk, 1, TRUE, FALSE), Wire(IdS, 2, TRUE, FALSE),
                Wire(IdQ, 2 * rd, FALSE, TRUE)>>,
              <<[Cell(IdCell, TypeId("$mem")) EXCEPT
                     !.ABITS = 1, !.WIDTH = 2, !.SIZE = 2, !.RD_PORTS = rd, !.WR_PORTS = wr,
                     !.INIT = init, !.OFFSET = offset,
                     !.RD_CLK_ENABLE = rce, !.WR_CLK_ENABLE = wce, !.WR_CLK_POLARITY = wcp,
                     !.RD_ADDR = <<WireChunk(IdA, 0, rd)>>, !.RD_DATA = Whole(IdQ, 2 * rd),
                     !.WR_ADDR = <<WireChunk(IdA, 0, wr)>>,
                     !.WR_DATA = IF wr = 0 THEN <<>> ELSE Whole(IdD, 2),
                     !.WR_CLK = IF wr = 0 THEN <<>> ELSE Whole(IdClk, 1),
                     !.WR_EN = IF wr = 0 THEN <<>>
                               ELSE IF uniform THEN <<WireChunk(IdS, 0, 1), WireChunk(IdS, 0, 1)>>
                               ELSE Whole(IdS, 2)]>>,
              <<>>)

MemDesigns == {MemDesign(rd, wr, init, offset, rce, wce, wcp, uniform) :
                 rd \in 1..2, wr \in 0..1, init \in [1..1 -> {"0", "1", "x", "z"}],
                 offset \in 0..1, rce \in [1..2 -> {"0", "1"}], wce \in [1..1 -> {"0", "1"}],
                 wcp \in [1..1 -> {"0", "1"}], uniform \in BOOLEAN}


SubModule == Mod(IdSub, <<Wire(IdI, 2, TRUE, FALSE), Wire(IdO, 2, FALSE, TRUE)>>,
                 <<>>, <<[first |-> Whole(IdO, 2), second |-> Whole(IdI, 2)]>>, FALSE)

\* top-level wiring: wires a (input), y (output), w; an optional $not cell driving
\* w or half of w; an optional instance of sub, or of a module the design lacks,
\* driving y or w; an optional connection to all or half of y
NotCell(half) ==
    [Cell(IdCell, TypeId("$not")) EXCEPT !.A_WIDTH = 2, !.A = Whole(IdA, 2),
         !.Y_WIDTH = IF half THEN 1 ELSE 2,
         !.Y = IF half THEN <<WireChunk(IdW, 1, 1)>> ELSE Whole(IdW, 2)]

InstCell(type, sink) ==
    [Cell(IdU0, type) EXCEPT !.conns = <<[port |-> IdI, sig |-> Whole(IdA, 2)],
                                         [port |-> IdO, sig |-> Whole(sink, 2)]>>]

WiringDesign(cell, inst, conn, init) ==
    [modules |->
        <<Mod(IdTop,
              <<Wire(IdA, 2, TRUE, FALSE), Wire(IdY, 2, FALSE, TRUE),
                [Wire(IdW, 2, FALSE, FALSE) EXCEPT !.init = init]>>,
              (CASE cell = "none" -> <<>>
                 [] cell = "all" -> <<NotCell(FALSE)>>
                 [] cell = "half" -> <<NotCell(TRUE)>>)
              \o (CASE inst = "none" -> <<>>
                    [] inst = "y" -> <<InstCell(IdSub, IdY)>>
                    [] inst = "w" -> <<InstCell(IdSub, IdW)>>
                    [] inst = "gone" -> <<InstCell(IdGone, IdY)>>),
              CASE conn = "none" -> <<>>
                [] conn = "all" -> <<[first |-> Whole(IdY, 2), second |-> Whole(IdA, 2)]>>
                [] conn = "half" -> <<[first |-> <<WireChunk(IdY, 0, 1)>>,
                                       second |-> <<WireChunk(IdA, 1, 1)>>]>>,
              TRUE)>>
        \o (IF inst \in {"y", "w"} THEN <<SubModule>> ELSE <<>>),
     top |-> 1]

WiringDesigns == {WiringDesign(cell, inst, conn, init) :
                    cell \in {"none", "all", "half"}, inst \in {"none", "y", "w", "gone"},
                    conn \in {"none", "all", "half"}, init \in BOOLEAN}

\* input a[3:0], output y[3:0] and the connection y <- a
IdentityDesign == OneModule(<<Wire(IdA, 4, TRUE, FALSE), Wire(IdY, 4, FALSE, TRUE)>>, <<>>,
                            <<[first |-> Whole(IdY, 4), second |-> Whole(IdA, 4)]>>)

\* a callee with an input i, an output o, an inout x and a wire n that is no port
IdX == <<"\\", "x">>
IdN == <<"\\", "n">>
PortSub == Mod(IdSub, <<Wire(IdI, 2, TRUE, FALSE), Wire(IdO, 2, FALSE, TRUE),
                        Wire(IdX, 2, TRUE, TRUE), Wire(IdN, 2, FALSE, FALSE)>>,
               <<>>, <<>>, FALSE)

\* how a port of the instance is connected: not at all, to the empty signal, or
\* to a wire of the instantiating module
PortConn(port, how, wire) ==
    CASE how = "absent" -> <<>>
      [] how = "empty" -> <<[port |-> port, sig |-> <<>>]>>
      [] how = "wire" -> <<[port |-> port, sig |-> Whole(wire, 2)]>>

\* top with input a, output y, wires w and d, and an instance U0 of the callee
PortDesign(hi, ho, hx, hn) ==
    [modules |->
        <<Mod(IdTop,
              <<Wire(IdA, 2, TRUE, FALSE), Wire(IdY, 2, FALSE, TRUE),
                Wire(IdW, 2, FALSE, FALSE), Wire(IdD, 2, FALSE, FALSE)>>,
              <<[Cell(IdU0, IdSub) EXCEPT
                     !.conns = PortConn(IdI, hi, IdA) \o PortConn(IdO, ho, IdY)
                               \o PortConn(IdX, hx, IdW) \o PortConn(IdN, hn, IdD)]>>,
              <<>>, TRUE),
          PortSub>>,
     top |-> 1]

PortDesigns == {PortDesign(hi, ho, hx, hn) :
                  hi \in {"absent", "empty", "wire"}, ho \in {"absent", "empty", "wire"},
                  hx \in {"absent", "empty", "wire"}, hn \in {"absent", "empty", "wire"}}

\* how a wire is driven by the connections of the module: not at all, in its
\* lower bit only, or whole
Driving(wire, how) ==
    CASE how = "undriven" -> <<>>
      [] how = "partly" -> <<[first |-> <<WireChunk(wire, 0, 1)>>, second |-> <<WireChunk(IdA, 0, 1)>>]>>
      [] how = "driven" -> <<[first |-> Whole(wire, 2), second |-> Whole(IdA, 2)]>>

\* input a and three wires y, w, d, each undriven, partly driven or driven
SentinelDesign(hy, hw, hd) ==
    OneModule(<<Wire(IdA, 2, TRUE, FALSE), Wire(IdY, 2, FALSE, TRUE),
                Wire(IdW, 2, FALSE, FALSE), Wire(IdD, 2, FALSE, FALSE)>>, <<>>,
              Driving(IdY, hy) \o Driving(IdW, hw) \o Driving(IdD, hd))

SentinelDesigns == {SentinelDesign(hy, hw, hd) :
                      hy \in {"undriven", "partly", "driven"},
                      hw \in {"undriven", "partly", "driven"},
                      hd \in {"undriven", "partly", "driven"}}

\* a module port that is both input and output
InoutDesign == OneModule(<<Wire(IdA, 1, TRUE, FALSE), Wire(IdY, 1, TRUE, TRUE)>>, <<>>, <<>>)

Designs == UnaryDesigns \cup ArithDesigns \cup ShiftDesigns \cup ConstShiftDesigns
           \cup BigShiftDesigns \cup MuxDesigns \cup MemDesigns \cup DffDesigns \cup OtherCellDesigns
           \cup WiringDesigns \cup PortDesigns \cup SentinelDesigns
           \cup {InoutDesign, IdentityDesign}

Init ==
    /\ used_names = {}
    /\ namecache = EmptyCache
    /\ autoid_counter = 0
    /\ design \in Designs
    /\ pc = "idle"
    /\ mi = 0
    /\ idx = 0
    /\ reverse_wire_map = EmptyMap
    /\ unconn_id = <<>>
    /\ port_decls = <<>>
    /\ wire_decls = <<>>
    /\ cell_exprs = <<>>
    /\ wire_exprs = <<>>
    /\ f = <<>>
    /\ log = <<>>
    /\ outputs = <<>>
    /\ issued = <<>>

Spec == Init /\ [][Next]_vars

(***************************************************************************)
(* SpecIds: the allocator under any sequence of calls                      *)
(***************************************************************************)
\* source ids whose sanitized spellings collide with each other and with fresh ids
SourceIds == {<<"\\", "a">>, <<"\\", "a", "$">>, <<"\\", "a", "_">>, <<"$", "0">>,
              <<"\\", "_", "0">>, <<"\\", "0">>, <<"\\", "9", "a">>, <<"\\", "A", ".", "b">>}

Issue(kind, src, out) == [kind |-> kind, src |-> src, out |-> out]

InitIds ==
    /\ used_names = {}
    /\ namecache = EmptyCache
    /\ autoid_counter = 0
    /\ design = InoutDesign
    /\ pc = "ids"
    /\ mi = 0
    /\ idx = 0
    /\ reverse_wire_map = EmptyMap
    /\ unconn_id = <<>>
    /\ port_decls = <<>>
    /\ wire_decls = <<>>
    /\ cell_exprs = <<>>
    /\ wire_exprs = <<>>
    /\ f = <<>>
    /\ log = <<>>
    /\ outputs = <<>>
    /\ issued = <<>>

IdsFrame == UNCHANGED <<design, pc, mi, idx, worker, f, log, outputs>>

Call_make_id ==
    /\ pc = "ids"
    /\ Len(issued) < MaxCalls
    /\ \E id \in SourceIds :
         LET r == make_id(G, id) IN
         /\ SetGlobals(r.g)
         /\ issued' = Append(issued, Issue("make_id", id, r.id))
    /\ IdsFrame

Call_next_id ==
    /\ pc = "ids"
    /\ Len(issued) < MaxCalls
    /\ LET r == next_id(G) IN
         /\ SetGlobals(r.g)
         /\ issued' = Append(issued, Issue("next_id", <<>>, r.id))
    /\ IdsFrame

\* the boundary between two runs: what execute resets on exit and on entry
Call_reset ==
    /\ pc = "ids"
    /\ Len(issued) < MaxCalls
    /\ namecache' = EmptyCache
    /\ autoid_counter' = 0
    /\ issued' = Append(issued, Issue("reset", <<>>, <<>>))
    /\ UNCHANGED used_names
    /\ IdsFrame

NextIds == Call_make_id \/ Call_next_id \/ Call_reset

SpecIds == InitIds /\ [][NextIds]_vars

\* the calls of the current run: those after the last reset
RunStart == IF \E i \in 1..Len(issued) : issued[i].kind = "reset"
            THEN 1 + CHOOSE i \in 1..Len(issued) :
                       /\ issued[i].kind = "reset"
                       /\ \A j \in 1..Len(issued) : issued[j].kind = "reset" => j <= i
            ELSE 1
ThisRun == RunStart..Len(issued)

\* C3: within one run, two calls return the same output id only when both are
\* make_id calls for the same source id: distinct source ids get distinct output
\* ids, a fresh id equals no sanitized id, and no two fresh ids are equal
IdentifierUniqueness ==
    \A i \in ThisRun : \A j \in ThisRun :
        (i < j /\ issued[i].out = issued[j].out)
            => (/\ issued[i].kind = "make_id"
                /\ issued[j].kind = "make_id"
                /\ issued[i].src = issued[j].src)

\* a run in which a sanitized spelling was taken (by a fresh id or by another
\* source id) and a second source id with the same spelling was suffixed
UniquenessWitness ==
    \E i \in ThisRun : \E j \in ThisRun :
        /\ i < j
        /\ issued[j].kind = "make_id"
        /\ Sanitize(log_id(issued[j].src)) = issued[i].out
        /\ issued[i].src # issued[j].src
        /\ issued[j].out = Append(issued[i].out, "_")

\* [A-Za-z_][A-Za-z0-9_]*
Legal(id) ==
    /\ Len(id) >= 1
    /\ id[1] \in LowerChars \cup UpperChars \cup {"_"}
    /\ \A i \in 2..Len(id) : id[i] \in LowerChars \cup UpperChars \cup DigitChars \cup {"_"}

\* C9: every id returned by make_id or next_id, in any state of the used-name
\* set, matches [A-Za-z_][A-Za-z0-9_]*
IdentifierLegality ==
    /\ \A i \in 1..Len(issued) : issued[i].kind # "reset" => Legal(issued[i].out)
    /\ \A id \in used_names : Legal(id)

\* a source id that starts with a digit was sanitized, and a collision suffix appended
LegalityWitness ==
    /\ \E i \in 1..Len(issued) :
         /\ issued[i].kind = "make_id"
         /\ log_id(issued[i].src)[1] \in DigitChars
    /\ \E i \in 1..Len(issued) :
         /\ issued[i].kind = "make_id"
         /\ issued[i].out # Sanitize(log_id(issued[i].src))

(***************************************************************************)
(* SpecLit: the signal printer on literal chunks                           *)
(***************************************************************************)
MaxLitWidth == 5     \* widths of the literal chunks: 1..MaxLitWidth

States == {"0", "1", "x", "z"}

RECURSIVE BitVectors(_)
\* the bit vectors of width n
BitVectors(n) == IF n = 0 THEN {<<>>}
                 ELSE {Append(v, b) : v \in BitVectors(n - 1), b \in States}

Literals == UNION {BitVectors(n) : n \in 1..MaxLitWidth}

\* a module whose output y is connected to a literal
LitDesign(bits) ==
    OneModule(<<Wire(IdY, Len(bits), FALSE, TRUE)>>, <<>>,
              <<[first |-> Whole(IdY, Len(bits)), second |-> <<ConstChunk(bits)>>]>>)

InitLit ==
    /\ used_names = {}
    /\ namecache = EmptyCache
    /\ autoid_counter = 0
    /\ design \in {LitDesign(bits) : bits \in Literals}
    /\ pc = "idle"
    /\ mi = 0
    /\ idx = 0
    /\ reverse_wire_map = EmptyMap
    /\ unconn_id = <<>>
    /\ port_decls = <<>>
    /\ wire_decls = <<>>
    /\ cell_exprs = <<>>
    /\ wire_exprs = <<>>
    /\ f = <<>>
    /\ log = <<>>
    /\ outputs = <<>>
    /\ issued = <<>>

\* the walk up to the point where the connection's literal has been printed
NextLit == Execute_Entry \/ Run_Wires \/ Run_Conn

SpecLit == InitLit /\ [][NextLit]_vars

HexVal(ch) == CASE ch = "0" -> 0 [] ch = "1" -> 1 [] ch = "2" -> 2 [] ch = "3" -> 3
                [] ch = "4" -> 4 [] ch = "5" -> 5 [] ch = "6" -> 6 [] ch = "7" -> 7
                [] ch = "8" -> 8 [] ch = "9" -> 9 [] ch = "a" -> 10 [] ch = "b" -> 11
                [] ch = "c" -> 12 [] ch = "d" -> 13 [] ch = "e" -> 14 [] ch = "f" -> 15

RECURSIVE ParseHex(_)
\* hex digits, most significant first, read as a number
ParseHex(ds) == IF ds = <<>> THEN 0
                ELSE 16 * ParseHex(SubSeq(ds, 1, Len(ds) - 1)) + HexVal(ds[Len(ds)])

RECURSIVE BitsValue(_)
\* the value of a bit vector (LSB first) whose x and z bits count as 0
BitsValue(bits) == IF bits = <<>> THEN 0
                   ELSE (IF Head(bits) = "1" THEN 1 ELSE 0) + 2 * BitsValue(Tail(bits))

LitPrinted == pc = "run" /\ idx = 2
LitData == Module.conns[1].second[1].data
LitExpr == cell_exprs[1].expr

\* C10: a literal chunk of width W is printed as UInt<W>("h...") whose hex digits,
\* read back as a number, are the value of the chunk modulo 2^W, with its x and z
\* bits taken as 0
LiteralRoundTrip ==
    LitPrinted =>
        /\ LitExpr.op = "UIntH"
        /\ LitExpr.ints = <<Len(LitData)>>
        /\ \A i \in 1..Len(LitExpr.name) : LitExpr.name[i] \in DigitChars \cup LowerChars
        /\ ParseHex(LitExpr.name) = BitsValue(LitData) % Pow2(Len(LitData))

\* a literal of two hex digits with a 1 in the upper digit, a 1 and an x in the lower
LiteralWitness ==
    /\ LitPrinted
    /\ Len(LitData) > 4
    /\ LitData[5] = "1"
    /\ \E i \in 1..4 : LitData[i] = "1"
    /\ \E i \in 1..4 : LitData[i] \in {"x", "z"}

(***************************************************************************)
(* FIRRTL, as far as the emitted expressions need it: the type (signedness *)
(* and width) of an expression, whether it is well formed, and its value   *)
(***************************************************************************)
FT(s, w) == [ok |-> TRUE, s |-> s, w |-> w]
FBad == [ok |-> FALSE, s |-> FALSE, w |-> 0]
Max(a, b) == IF a >= b THEN a ELSE b
Min(a, b) == IF a <= b THEN a ELSE b

\* the amount of a static shift: a literal, possibly cast; -1 when it is none
RECURSIVE StaticAmount(_)
StaticAmount(e) == IF e.op \in {"asUInt", "asSInt"} THEN StaticAmount(e.args[1])
                   ELSE IF e.op = "UIntH" THEN ParseHex(e.name)
                   ELSE -1

RECURSIVE FType(_, _)
\* the type of e where env gives the widths of the declared ids (all UInt)
FType(e, env) ==
    LET a == FType(e.args[1], env)
        b == FType(e.args[2], env)
        c == FType(e.args[3], env)
        ok1 == a.ok
        ok2 == a.ok /\ b.ok
    IN CASE e.op = "ref" -> IF e.name \in DOMAIN env THEN FT(FALSE, env[e.name]) ELSE FBad
         [] e.op = "UIntH" -> IF ParseHex(e.name) < Pow2(e.ints[1]) THEN FT(FALSE, e.ints[1]) ELSE FBad
         [] e.op = "UIntD" -> IF e.ints[2] < Pow2(e.ints[1]) THEN FT(FALSE, e.ints[1]) ELSE FBad
         [] e.op = "UInt0" -> FT(FALSE, 1)
         [] e.op = "Int0" -> FT(e.name = <<"S">>, e.ints[1])
         [] e.op = "asUInt" -> IF ok1 THEN FT(FALSE, a.w) ELSE FBad
         [] e.op = "asSInt" -> IF ok1 THEN FT(TRUE, a.w) ELSE FBad
         [] e.op = "asClock" -> IF ok1 /\ a.w = 1 THEN FT(FALSE, 1) ELSE FBad
         [] e.op = "pad" -> IF ok1 THEN FT(a.s, Max(a.w, e.ints[1])) ELSE FBad
         [] e.op = "bits" -> IF ok1 /\ e.ints[1] < a.w /\ e.ints[2] <= e.ints[1] /\ e.ints[2] >= 0
                             THEN FT(FALSE, e.ints[1] - e.ints[2] + 1) ELSE FBad
         [] e.op = "cat" -> IF ok2 /\ a.s = b.s THEN FT(FALSE, a.w + b.w) ELSE FBad
         [] e.op = "shl" -> IF ok1 /\ StaticAmount(e.args[2]) >= 0
                            THEN FT(a.s, a.w + StaticAmount(e.args[2])) ELSE FBad
         [] e.op = "shr" -> IF ok1 /\ StaticAmount(e.args[2]) >= 0
                            THEN FT(a.s, Max(a.w - StaticAmount(e.args[2]), 1)) ELSE FBad
         [] e.op = "dshl" -> IF ok2 /\ ~b.s /\ b.w < FIRRTL_MAX_DSH_WIDTH_ERROR
                             THEN FT(a.s, a.w + Pow2(b.w) - 1) ELSE FBad
         [] e.op = "dshr" -> IF ok2 /\ ~b.s THEN FT(a.s, a.w) ELSE FBad
         [] e.op \in {"add", "sub"} -> IF ok2 /\ a.s = b.s THEN FT(a.s, Max(a.w, b.w) + 1) ELSE FBad
         [] e.op = "mul" -> IF ok2 /\ a.s = b.s THEN FT(a.s, a.w + b.w) ELSE FBad
         [] e.op = "div" -> IF ok2 /\ a.s = b.s THEN FT(a.s, IF a.s THEN a.w + 1 ELSE a.w) ELSE FBad
         [] e.op = "rem" -> IF ok2 /\ a.s = b.s THEN FT(a.s, Min(a.w, b.w)) ELSE FBad
         [] e.op \in {"and", "or", "xor"} -> IF ok2 /\ a.s = b.s THEN FT(FALSE, Max(a.w, b.w)) ELSE FBad
         [] e.op \in {"eq", "neq", "gt", "geq", "lt", "leq"} ->
                IF ok2 /\ a.s = b.s THEN FT(FALSE, 1) ELSE FBad
         [] e.op = "not" -> IF ok1 THEN FT(FALSE, a.w) ELSE FBad
         [] e.op = "neg" -> IF ok1 THEN FT(TRUE, a.w + 1) ELSE FBad
         [] e.op \in {"andr", "orr", "xorr"} -> IF ok1 THEN FT(FALSE, 1) ELSE FBad
         [] e.op = "mux" -> IF ok2 /\ c.ok /\ ~a.s /\ a.w = 1 /\ b.s = c.s
                            THEN FT(b.s, Max(b.w, c.w)) ELSE FBad
         [] e.op = "validif" -> IF ok2 /\ ~a.s /\ a.w = 1 THEN FT(b.s, b.w) ELSE FBad
         [] OTHER -> FBad

\* the two's complement pattern of v in w bits, and the signed value of a pattern
Unsigned(v, w) == ((v % Pow2(w)) + Pow2(w)) % Pow2(w)
Signed(u, w) == IF u >= Pow2(w - 1) THEN u - Pow2(w) ELSE u

RECURSIVE FVal(_, _, _)
\* the value of a well-formed e where val gives the values of the declared ids
FVal(e, env, val) ==
    LET a == FVal(e.args[1], env, val)
        b == FVal(e.args[2], env, val)
        ta == FType(e.args[1], env)
        tb == FType(e.args[2], env)
    IN CASE e.op = "ref" -> val[e.name]
         [] e.op = "UIntH" -> ParseHex(e.name)
         [] e.op = "UIntD" -> e.ints[2]
         [] e.op = "asUInt" -> Unsigned(a, ta.w)
         [] e.op = "asSInt" -> Signed(Unsigned(a, ta.w), ta.w)
         [] e.op = "pad" -> a
         [] e.op = "bits" -> (Unsigned(a, ta.w) \div Pow2(e.ints[2])) % Pow2(e.ints[1] - e.ints[2] + 1)
         [] e.op = "cat" -> Unsigned(a, ta.w) * Pow2(tb.w) + Unsigned(b, tb.w)
         [] e.op = "shl" -> a * Pow2(StaticAmount(e.args[2]))
         [] e.op = "dshl" -> a * Pow2(b)
         [] e.op = "gt" -> IF a > b THEN 1 ELSE 0
         [] e.op = "mux" -> IF a = 1 THEN b ELSE FVal(e.args[3], env, val)

(***************************************************************************)
(* The module being walked, as emitted so far                              *)
(***************************************************************************)
Walking == pc = "run"
Reassembled == pc = "run" /\ idx = NCells + NConns + NWires + 1

\* the cells of the module that have been translated
CellsDone == {Module.cells[j] : j \in 1..Min(idx - 1, NCells)}

AllDecls == port_decls \o wire_decls
DeclsOf(id) == {i \in 1..Len(AllDecls) :
                  AllDecls[i].k \in {"input", "output", "wire", "reg"} /\ AllDecls[i].id = id}
\* the widths of the declared ids
DeclEnv == [id \in {AllDecls[i].id : i \in {j \in 1..Len(AllDecls) :
                       AllDecls[j].k \in {"input", "output", "wire", "reg"}}} |->
              AllDecls[CHOOSE i \in DeclsOf(id) : TRUE].width]

\* the expressions assigned to the result wire of a translated cell
ResultExprs(cell) == {cell_exprs[i].expr : i \in {j \in 1..Len(cell_exprs) :
                        /\ cell_exprs[j].k = "connect"
                        /\ cell.name \in DOMAIN namecache
                        /\ cell_exprs[j].lhs = Ref(namecache[cell.name])}}

(***************************************************************************)
(* Claims about the emitted modules, under Spec                            *)
(***************************************************************************)
AllStmts == port_decls \o wire_decls \o cell_exprs \o wire_exprs

\* a connect statement whose sink covers bit i of the emitted id
Assigned(id, i) ==
    \E n \in 1..Len(AllStmts) :
        /\ AllStmts[n].k = "connect"
        /\ \/ AllStmts[n].lhs = Ref(id)
           \/ /\ AllStmts[n].lhs.op = "bits"
              /\ AllStmts[n].lhs.args[1] = Ref(id)
              /\ AllStmts[n].lhs.ints[2] <= i
              /\ i <= AllStmts[n].lhs.ints[1]

MarkedInvalid(id) == \E n \in 1..Len(AllStmts) : AllStmts[n] = Invalid(id)

NonInputWires == {Module.wires[i] : i \in {j \in 1..NWires : ~Module.wires[j].port_input}}

\* C1: in every emitted module every bit of every non-input wire is either
\* assigned or marked invalid, and never both, the wires driven by the output
\* port of an instance included
DriverCoverage ==
    Reassembled =>
        \A wire \in NonInputWires : \A i \in 0..(wire.width - 1) :
            /\ wire.name \in DOMAIN namecache
            /\ Assigned(namecache[wire.name], i) # MarkedInvalid(namecache[wire.name])

\* C2: a second run on the unchanged design writes what the first run wrote
Idempotence == Len(outputs) >= 2 => outputs[2] = outputs[1]

\* the translated cells of the given types
DoneOf(types) == IF Walking THEN {c \in CellsDone : Str(c.type) \in types} ELSE {}

\* the values a port can carry: the constant it is tied to, or any value of its width
PortValues(sig, width) == IF is_fully_const(sig) THEN {BitsValue(sig[1].data)}
                          ELSE 0..(Pow2(width) - 1)

\* the values of the emitted ids of the operand wires
OperandVal(a, b) ==
    [id \in {namecache[n] : n \in {IdA, IdB} \cap DOMAIN namecache} |->
        IF IdA \in DOMAIN namecache /\ id = namecache[IdA] THEN a ELSE b]

\* (A << B) in Y_WIDTH bits, A extended by its sign when A_SIGNED
ShlValue(cell, a, b) ==
    Unsigned((IF cell.A_SIGNED THEN Signed(a, cell.A_WIDTH) ELSE a) * Pow2(b), cell.Y_WIDTH)

\* C4: the expression emitted for a $shl/$sshl cell is well formed under the
\* FIRRTL rules (shl and dshl widen, bits needs hi below the width) and, for
\* every value of A and B, equals (A << B) truncated to Y_WIDTH bits
LeftShiftEquivalence ==
    \A cell \in DoneOf({"$shl", "$sshl"}) :
        cell.B_WIDTH <= MaxWidth =>
            \A e \in ResultExprs(cell) :
                /\ FType(e, DeclEnv) = FT(FALSE, cell.Y_WIDTH)
                /\ \A a \in PortValues(cell.A, cell.A_WIDTH), b \in PortValues(cell.B, cell.B_WIDTH) :
                       FVal(e, DeclEnv, OperandVal(a, b)) = ShlValue(cell, a, b)

RECURSIVE SubExprs(_)
SubExprs(e) == {e} \cup UNION {SubExprs(e.args[i]) : i \in 1..Len(e.args)}

\* the dshl calls of the expressions emitted for the translated cells
EmittedDshl == UNION {UNION {{d \in SubExprs(e) : d.op = "dshl"} : e \in ResultExprs(cell)} :
                        cell \in DoneOf({"$shl", "$sshl", "$shift"})}

\* C5: the shift amount of every emitted dshl has, as a FIRRTL type, a width
\* of at most 19, whatever B_WIDTH is
ShiftWidthCap ==
    \A d \in EmittedDshl :
        /\ FType(d.args[2], DeclEnv).ok
        /\ FType(d.args[2], DeclEnv).w <= FIRRTL_MAX_DSH_WIDTH_ERROR - 1

\* a dshl has been emitted for a cell whose B is wider than the cap
ShiftWidthCapWitness ==
    \E cell \in DoneOf({"$shl", "$sshl", "$shift"}) :
        /\ cell.B_WIDTH > FIRRTL_MAX_DSH_WIDTH_ERROR
        /\ \E e \in ResultExprs(cell) : \E d \in SubExprs(e) : d.op = "dshl"

\* the $shl cells shifting by a wire B that is unsigned and 20 bits or wider
WideShlCells == {c \in DoneOf({"$shl"}) : /\ ~is_fully_const(c.B)
                                          /\ ~c.B_SIGNED
                                          /\ c.B_WIDTH >= FIRRTL_MAX_DSH_WIDTH_ERROR}

\* the emitted names of the operand wires
NameA == Str(namecache[IdA])
NameB == Str(namecache[IdB])

\* mux(gt(b, UInt<19>(524287)), UInt<19>(524287), bits(b, 18, 0))
GuardedText == "mux(gt(" \o NameB \o ", UInt<19>(524287)), UInt<19>(524287), bits("
               \o NameB \o ", 18, 0))"

\* C6 as stated: the expression is exactly
\* bits(dshl(pad(a, Y_WIDTH), <guarded b>), Y_WIDTH-1, 0)
DynamicShlForm ==
    \A cell \in WideShlCells : \A e \in ResultExprs(cell) :
        Show(e) = "bits(dshl(pad(" \o NameA \o ", " \o Str(Dec(cell.Y_WIDTH)) \o "), "
                  \o GuardedText \o "), " \o Str(Dec(cell.Y_WIDTH - 1)) \o ", 0)"

\* C6 amended: the A operand is not padded and the guarded amount is wrapped in
\* asUInt: bits(dshl(a, asUInt(<guarded b>)), Y_WIDTH-1, 0) for an unsigned A,
\* asUInt(bits(dshl(asSInt(a), asUInt(<guarded b>)), Y_WIDTH-1, 0)) for a signed A
DynamicShlFormAsEmitted ==
    \A cell \in WideShlCells : \A e \in ResultExprs(cell) :
        LET core == "bits(dshl(" \o (IF cell.A_SIGNED THEN "asSInt(" \o NameA \o ")" ELSE NameA)
                    \o ", asUInt(" \o GuardedText \o ")), "
                    \o Str(Dec(cell.Y_WIDTH - 1)) \o ", 0)"
        IN Show(e) = IF cell.A_SIGNED THEN "asUInt(" \o core \o ")" ELSE core

\* a $shl with Y_WIDTH = 8 and an unsigned 32-bit wire B has been translated
DynamicShlWitness ==
    \E cell \in WideShlCells :
        cell.Y_WIDTH = 8 /\ cell.B_WIDTH = 32 /\ ~cell.A_SIGNED /\ ResultExprs(cell) # {}

\* the primops whose result is unsigned whatever the operands are
UnsignedPrimops == {"and", "or", "xor", "eq", "neq", "gt", "geq", "lt", "leq"}

\* the primop call of a binary cell's expression, under the outer asUInt and the
\* bits(...) of a left shift
CorePrimop(e) == LET inner == IF e.op = "asUInt" THEN e.args[1] ELSE e
                 IN IF inner.op = "bits" THEN inner.args[1].op ELSE inner.op

\* C7: a binary cell's expression has the outer asUInt exactly when the cell is
\* $sub, or is signed and its primop is not always unsigned; a signed $add of a
\* and b emits asUInt(add(asSInt(a), asSInt(b)))
SignednessPolicy ==
    \A cell \in DoneOf(BinaryTypes) : \A e \in ResultExprs(cell) :
        /\ (e.op = "asUInt") <=>
              (Str(cell.type) = "$sub" \/ (cell.A_SIGNED /\ CorePrimop(e) \notin UnsignedPrimops))
        /\ (Str(cell.type) = "$add" /\ cell.A_SIGNED /\ cell.B_SIGNED) =>
              Show(e) = "asUInt(add(asSInt(" \o NameA \o "), asSInt(" \o NameB \o ")))"

\* a signed $add has been translated and its expression has the outer asUInt
SignednessWitness ==
    \E cell \in DoneOf({"$add"}) :
        cell.A_SIGNED /\ cell.B_SIGNED /\ \E e \in ResultExprs(cell) : e.op = "asUInt"

\* C8: a translated unary, binary, $shift or $shiftx cell that is assigned an
\* expression has exactly one result wire declared, of width Y_WIDTH
WidthPreservation ==
    \A cell \in DoneOf(UnaryTypes \cup BinaryTypes \cup {"$shift", "$shiftx"}) :
        ResultExprs(cell) # {} =>
            /\ Cardinality(DeclsOf(namecache[cell.name])) = 1
            /\ \A i \in DeclsOf(namecache[cell.name]) :
                   AllDecls[i].k = "wire" /\ AllDecls[i].width = cell.Y_WIDTH

\* a unary cell whose result is narrower or wider than its operand has been translated
WidthWitness ==
    \E cell \in DoneOf(UnaryTypes) :
        cell.Y_WIDTH # cell.A_WIDTH /\ ResultExprs(cell) # {}

\* C11: between runs (before the first run, and after the exit of any run) the
\* name cache and the used-name set are empty and the counter of anonymous ids is
\* zero, so every run starts from an empty used-name set
RunStateReset ==
    pc = "idle" => /\ namecache = EmptyCache
                   /\ autoid_counter = 0
                   /\ used_names = {}

\* the positions of the module headers in the output, and the module (by its
\* place among the headers) that the line at position p belongs to
HeaderPositions == {p \in 1..Len(f) : f[p].k = "module"}
SegOf(p) == Cardinality({q \in HeaderPositions : q <= p})

Dotted(e) == e.op = "ref" /\ "." \in Range(e.name)

\* the kind of the line at position p of a module: 1 a port declaration, 2 a wire
\* or register declaration or an invalid mark, 3 an assignment made for a cell or
\* a connection (the lines of an instance included), 4 the final assignment of a
\* wire of the module, 0 a blank line or a header
LineClass(p) ==
    LET s == f[p]
        m == design.modules[SegOf(p)]
        wireIds == {namecache[m.wires[i].name] : i \in 1..Len(m.wires)}
    IN CASE s.k \in {"input", "output"} -> 1
         [] s.k \in {"wire", "reg", "invalid"} -> 2
         [] s.k = "inst" -> 3
         [] s.k = "connect" -> IF s.lhs.op = "ref" /\ s.lhs.name \in wireIds /\ ~Dotted(s.expr)
                               THEN 4 ELSE 3
         [] OTHER -> 0

MemErrors == {"Memory with initialization data", "Memory with nonzero offset", "Clocked read port",
              "Unclocked write port", "Negedge write port", "Complex write enable"}
MemFatal(j) == /\ pc = "error" /\ idx = j
               /\ log # <<>> /\ log[Len(log)].level = "error" /\ log[Len(log)].what \in MemErrors
MemDone(j) == pc = "run" /\ idx > j
MemCells == IF pc \in {"run", "error"}
            THEN {j \in 1..NCells : Str(Module.cells[j].type) = "$mem" /\ (MemFatal(j) \/ MemDone(j))}
            ELSE {}

\* the enable bits of write port i
WriteEnable(cell, i) == SubSeq(SigBits(cell.WR_EN), i * cell.WIDTH + 1, (i + 1) * cell.WIDTH)

ClockedRead(cell) == \E i \in 1..cell.RD_PORTS : cell.RD_CLK_ENABLE[i] # "0"
InitDefined(cell) == \E i \in 1..Len(cell.INIT) : cell.INIT[i] \in {"0", "1"}
BadWrite(cell) == \E i \in 1..cell.WR_PORTS :
                      \/ cell.WR_CLK_ENABLE[i] # "1"
                      \/ cell.WR_CLK_POLARITY[i] # "1"
                      \/ \E j \in 1..cell.WIDTH :
                             WriteEnable(cell, i - 1)[j] # WriteEnable(cell, i - 1)[1]

\* C13: the translation of a $mem cell ends in a fatal error exactly when OFFSET
\* is non-zero, an INIT bit is defined, a read port is clocked, a write port is
\* unclocked or negative-edge, or a write port's enable bits differ; when a
\* clocked read port is the only violation, that is the error reported
MemoryRejection ==
    \A j \in MemCells :
        LET cell == Module.cells[j] IN
        /\ MemFatal(j) <=> (cell.OFFSET # 0 \/ InitDefined(cell) \/ ClockedRead(cell) \/ BadWrite(cell))
        /\ (ClockedRead(cell) /\ cell.OFFSET = 0 /\ ~InitDefined(cell) /\ ~BadWrite(cell))
               => (MemFatal(j) /\ log[Len(log)].what = "Clocked read port")

\* the instance cells (module, cell) whose type names no module of the design and
\* that the walk has passed
IsMissing(cell) == /\ CellKind(cell) = "instance"
                   /\ \A i \in 1..Len(design.modules) : design.modules[i].name # cell.type
MissingPassed ==
    {mj \in UNION {{<<m, j>> : j \in 1..Len(design.modules[m].cells)} :
                     m \in 1..Len(design.modules)} :
        /\ IsMissing(design.modules[mj[1]].cells[mj[2]])
        /\ \/ pc \in {"run", "error"} /\ mi = mj[1] /\ idx > mj[2]
           \/ pc \in {"wires", "run"} /\ mi > mj[1]
           \/ pc = "exit"}

\* the lines written or buffered so far
LinesSoFar == f \o AllStmts

\* the line names the cell: inst <cell> ..., or a connect with <cell>.<port>
IsPrefix(a, b) == Len(a) <= Len(b) /\ SubSeq(b, 1, Len(a)) = a
NamesCell(s, cell_name) ==
    \/ s.k = "inst" /\ s.id = cell_name
    \/ /\ s.k = "connect"
       /\ \E e \in {s.lhs, s.expr} : e.op = "ref" /\ IsPrefix(cell_name \o <<".">>, e.name)

\* the cells of module m that get a result wire
ResultCells(m) == {c \in Range(design.modules[m].cells) :
                     CellKind(c) \in {"unary", "binary", "mux", "dff", "shiftx", "shift"}}

WireBitsOf(sig) == {b \in Range(SigBits(sig)) : b.wire # <<>>}

\* the ports of an instance cell that are outputs (or inouts) of an existing callee
OutputConns(cell) ==
    {c \in Range(cell.conns) :
        /\ ~IsMissing(cell)
        /\ LET callee == design.modules[CHOOSE i \in 1..Len(design.modules) :
                                            design.modules[i].name = cell.type]
           IN \E i \in 1..Len(callee.wires) :
                  /\ callee.wires[i].name = c.port
                  /\ callee.wires[i].port_id # 0
                  /\ callee.wires[i].port_output}

\* the wire bits a cell drives in the emitted module
CellDrives(cell) ==
    LET kind == CellKind(cell) IN
    CASE kind \in {"unary", "binary", "mux", "shiftx", "shift"} -> WireBitsOf(cell.Y)
      [] kind = "dff" -> WireBitsOf(cell.Q)
      [] kind = "mem" -> WireBitsOf(extract(cell.RD_DATA, 0, cell.RD_PORTS * cell.WIDTH))
      [] kind = "instance" -> UNION {WireBitsOf(c.sig) : c \in OutputConns(cell)}
      [] OTHER -> {}

\* the wire bits driven by the cells and the connections of the module
DrivenBits == UNION {CellDrives(c) : c \in Range(Module.cells)}
              \cup UNION {WireBitsOf(c.first) : c \in Range(Module.conns)}

ReassemblyStarts == pc = "run" /\ idx = NCells + NConns + 1

\* C15: when the reassembly of the wires starts, the wire bits that have an entry
\* in the reverse wire map are the bits driven by a cell (a primitive's output, a
\* flip-flop's Q, a memory's read data, an instance's output port) or by a
\* connection of the module
ReverseMapConsistency ==
    ReassemblyStarts => {b \in DOMAIN reverse_wire_map : b.wire # <<>>} = DrivenBits

\* the arguments of nested cat(hi, lo) calls, the lowest first
RECURSIVE CatLeaves(_)
CatLeaves(e) == IF e.op = "cat" THEN CatLeaves(e.args[2]) \o CatLeaves(e.args[1]) ELSE <<e>>

\* the bits (id, index) a leaf stands for, the lowest first: bits(id, hi, lo), or
\* a 1-bit id
LeafBits(c) == IF c.op = "bits"
               THEN [i \in 1..(c.ints[1] - c.ints[2] + 1) |-> <<c.args[1].name, c.ints[2] + i - 1>>]
               ELSE <<<<c.name, 0>>>>

RECURSIVE ConcatAll(_)
ConcatAll(seqs) == IF seqs = <<>> THEN <<>> ELSE Head(seqs) \o ConcatAll(Tail(seqs))

ExprBits(e) == ConcatAll([i \in 1..Len(CatLeaves(e)) |-> LeafBits(CatLeaves(e)[i])])

\* the final assignments of a wire: wire <= <expression>, those of an instance apart
FinalAssignments(wire) ==
    {AllStmts[n].expr : n \in {i \in 1..Len(AllStmts) :
        /\ AllStmts[i].k = "connect"
        /\ AllStmts[i].lhs = Ref(namecache[wire.name])
        /\ ~Dotted(AllStmts[i].expr)}}

DrivenWires == {w \in NonInputWires :
                  \E i \in 0..(w.width - 1) : SigBit(w, i) \in DOMAIN reverse_wire_map}

\* two leaves that one bits(id, hi, lo) could cover
Mergeable(c1, c2) == /\ c1.op = "bits" /\ c2.op = "bits"
                     /\ c1.args[1] = c2.args[1]
                     /\ c2.ints[2] = c1.ints[1] + 1

\* C16: a non-input wire with a driven bit gets one final assignment whose
\* expression has the wire's width, whose bit i is the reverse map's entry for
\* (wire, i), or the invalid sentinel where there is none, and whose bits(...)
\* chunks are maximal; in a first run the connection y <- a of width 4 gives
\* wire _0: UInt<4>, _0 <= a and y <= bits(_0, 3, 0)
WireReassembly ==
    Reassembled =>
        /\ \A wire \in DrivenWires :
               /\ Cardinality(FinalAssignments(wire)) = 1
               /\ \A e \in FinalAssignments(wire) :
                      LET leaves == CatLeaves(e)
                          bits == ExprBits(e)
                      IN /\ Len(bits) = wire.width
                         /\ \A i \in 0..(wire.width - 1) :
                                bits[i + 1] = IF SigBit(wire, i) \in DOMAIN reverse_wire_map
                                              THEN reverse_wire_map[SigBit(wire, i)]
                                              ELSE <<unconn_id, 0>>
                         /\ \A n \in 1..Len(leaves) :
                                \/ leaves[n].op = "bits" /\ leaves[n].args[1].op = "ref"
                                \/ leaves[n] = Ref(unconn_id) /\ unconn_id # <<>>
                         /\ \A n \in 1..(Len(leaves) - 1) : ~Mergeable(leaves[n], leaves[n + 1])
        /\ (design = IdentityDesign /\ outputs = <<>>) =>
               /\ wire_decls = <<Decl("wire", <<"_", "0">>, 4)>>
               /\ cell_exprs = <<Connect(Ref(<<"_", "0">>), Ref(<<"a">>))>>
               /\ wire_exprs = <<Connect(Ref(<<"y">>), Prim("bits", <<Ref(<<"_", "0">>)>>, <<3, 0>>))>>
               /\ Show(wire_exprs[1].expr) = "bits(_0, 3, 0)"

\* a wire with a driven and an undriven bit has been reassembled
WireReassemblyWitness ==
    /\ Reassembled
    /\ \E wire \in DrivenWires :
           \E i \in 0..(wire.width - 1) : SigBit(wire, i) \notin DOMAIN reverse_wire_map

(***************************************************************************)
(* SpecSig: the signal printer on signals of several chunks                *)
(***************************************************************************)
MaxChunks == 2     \* chunks of a signal: 1..MaxChunks

\* the chunks: literals of one and two bits, the wires a (two bits) and b (one
\* bit) whole, and the slices a[0] and a[1]
SigChunks == {ConstChunk(v) : v \in UNION {[1..n -> {"0", "1", "x"}] : n \in 1..2}}
             \cup {Whole(IdA, 2)[1], Whole(IdB, 1)[1], WireChunk(IdA, 0, 1), WireChunk(IdA, 1, 1)}

Signals == UNION {[1..n -> SigChunks] : n \in 1..MaxChunks}

\* a module whose output y is connected to a signal of a and b
SigDesign(sig) ==
    OneModule(<<Wire(IdA, 2, TRUE, FALSE), Wire(IdB, 1, TRUE, FALSE),
                Wire(IdY, SigSize(sig), FALSE, TRUE)>>, <<>>,
              <<[first |-> Whole(IdY, SigSize(sig)), second |-> sig]>>)

InitSig ==
    /\ used_names = {}
    /\ namecache = EmptyCache
    /\ autoid_counter = 0
    /\ design \in {SigDesign(sig) : sig \in Signals}
    /\ pc = "idle"
    /\ mi = 0
    /\ idx = 0
    /\ reverse_wire_map = EmptyMap
    /\ unconn_id = <<>>
    /\ port_decls = <<>>
    /\ wire_decls = <<>>
    /\ cell_exprs = <<>>
    /\ wire_exprs = <<>>
    /\ f = <<>>
    /\ log = <<>>
    /\ outputs = <<>>
    /\ issued = <<>>

\* the walk up to the point where the connection's signal has been printed
NextSig == Execute_Entry \/ Run_Wires \/ Run_Conn

SpecSig == InitSig /\ [][NextSig]_vars

SigPrinted == pc = "run" /\ idx = 2 /\ NCells = 0 /\ NConns = 1
PrintedSig == Module.conns[1].second
PrintedExpr == cell_exprs[1].expr

\* the bits a printed leaf stands for, the lowest first: a constant bit is
\* (<<>>, 0 or 1), a wire bit (id, index)
PrintedLeafBits(c) ==
    CASE c.op = "UIntH" -> [i \in 1..c.ints[1] |-> <<<<>>, (ParseHex(c.name) \div Pow2(i - 1)) % 2>>]
      [] c.op = "ref" -> [i \in 1..DeclEnv[c.name] |-> <<c.name, i - 1>>]
      [] c.op = "bits" -> LeafBits(c)

PrintedBits(e) == ConcatAll([i \in 1..Len(CatLeaves(e)) |-> PrintedLeafBits(CatLeaves(e)[i])])

\* the bits of the signal, the lowest first, the wires under their emitted names
SourceBits(sig) ==
    [i \in 1..SigSize(sig) |->
        LET b == SigBits(sig)[i] IN
        IF b.wire = <<>> THEN <<<<>>, IF b.data = "1" THEN 1 ELSE 0>>
        ELSE <<namecache[b.wire], b.offset>>]

\* C17: the expression printed for a signal has, under cat(hi, lo) and
\* bits(name, hi, lo), the signal's width and the signal's bit i as its bit i,
\* and the chunk processed last is the leftmost argument of cat
SignalBitOrder ==
    SigPrinted =>
        /\ PrintedBits(PrintedExpr) = SourceBits(PrintedSig)
        /\ Len(PrintedBits(PrintedExpr)) = SigSize(PrintedSig)
        /\ Len(PrintedSig) >= 2 =>
               /\ PrintedExpr.op = "cat"
               /\ PrintedExpr.args[1].op # "cat"
               /\ PrintedLeafBits(PrintedExpr.args[1]) =
                      SourceBits(<<PrintedSig[Len(PrintedSig)]>>)

\* a signal of a literal below a slice has been printed
SignalBitOrderWitness ==
    /\ SigPrinted
    /\ Len(PrintedSig) = 2
    /\ PrintedSig[1].wire = <<>>
    /\ PrintedSig[2] = WireChunk(IdA, 1, 1)

(***************************************************************************)
(* Claims about the instances, under Spec                                  *)
(***************************************************************************)
\* the instance cells of the module being walked whose callee exists, has a wire
\* for every connected port, and that the walk has passed
CalleeOf(cell) == design.modules[CHOOSE i \in 1..Len(design.modules) :
                                     design.modules[i].name = cell.type]
InstancesPassed ==
    IF pc = "run"
    THEN {j \in 1..Min(idx - 1, NCells) :
            /\ CellKind(Module.cells[j]) = "instance"
            /\ ~IsMissing(Module.cells[j])
            /\ \A c \in Range(Module.cells[j].conns) :
                   \E i \in 1..Len(CalleeOf(Module.cells[j]).wires) :
                       CalleeOf(Module.cells[j]).wires[i].name = c.port}
    ELSE {}

CalleeWire(cell, port) ==
    LET callee == CalleeOf(cell)
    IN callee.wires[CHOOSE i \in 1..Len(callee.wires) : callee.wires[i].name = port]

\* the connections of the cell that are not empty, by the callee's wire
NonEmptyConns(cell) == {n \in 1..Len(cell.conns) : SigSize(cell.conns[n].sig) > 0}
IsPortOf(w) == w.port_id # 0
UndirectedConns(cell) == {n \in NonEmptyConns(cell) :
                            ~IsPortOf(CalleeWire(cell, cell.conns[n].port))}
InoutConns(cell) == {n \in NonEmptyConns(cell) :
                       LET w == CalleeWire(cell, cell.conns[n].port)
                       IN IsPortOf(w) /\ w.port_input /\ w.port_output}

\* <cell>.<port>
PortRef(cell, port) == Ref(namecache[cell.name] \o <<".">> \o namecache[port])

\* the connect lines that name <cell>.<port>
PortLines(cell, port) ==
    {n \in 1..Len(wire_exprs) :
        /\ wire_exprs[n].k = "connect"
        /\ PortRef(cell, port) \in {wire_exprs[n].lhs, wire_exprs[n].expr}}

CountMsg(m) == Cardinality({n \in 1..Len(log) : log[n] = m})

\* C18: every non-empty port connection of an instance whose callee exists gets
\* exactly one connect line, <cell>.<port> <= <operand> when the callee's wire of
\* that name is an input or no port at all (with a warning for the latter),
\* <operand> <= <cell>.<port> when it is an output or an inout (with a warning
\* for the latter); an empty connection gets none
InstancePortDirection ==
    \A j \in InstancesPassed :
        LET cell == Module.cells[j] IN
        /\ \A n \in 1..Len(cell.conns) :
               LET c == cell.conns[n]
                   w == CalleeWire(cell, c.port)
                   operand == make_expr(G, Module, c.sig).e
                   port == PortRef(cell, c.port)
               IN IF n \in NonEmptyConns(cell)
                  THEN /\ Cardinality(PortLines(cell, c.port)) = 1
                       /\ \A k \in PortLines(cell, c.port) :
                              wire_exprs[k] = IF IsPortOf(w) /\ w.port_output
                                              THEN Connect(operand, port)
                                              ELSE Connect(port, operand)
                  ELSE c.port \in DOMAIN namecache => PortLines(cell, c.port) = {}
        /\ CountMsg(Msg("warning", "instance port is NODIRECTION; treating as IN"))
               = Cardinality(UndirectedConns(cell))
        /\ CountMsg(Msg("warning", "instance port is INOUT; treating as OUT"))
               = Cardinality(InoutConns(cell))

\* an instance with an input, an output, an inout and an undirected port
\* connected has been translated
InstancePortWitness ==
    \E j \in InstancesPassed :
        /\ Cardinality(NonEmptyConns(Module.cells[j])) = 4
        /\ UndirectedConns(Module.cells[j]) # {}
        /\ InoutConns(Module.cells[j]) # {}

\* the final assignments of the module's wires, and the ids that stand for
\* undriven bits in them: the arguments of cat that are no bits(...)
AssignmentLeaves ==
    UNION {Range(CatLeaves(e)) : e \in UNION {FinalAssignments(w) : w \in NonInputWires}}
SentinelIds == {c.name : c \in {l \in AssignmentLeaves : l.op = "ref"}}

\* the ids marked invalid that are no wires of the module
ModuleWireIds == {namecache[Module.wires[i].name] :
                    i \in {j \in 1..NWires : Module.wires[j].name \in DOMAIN namecache}}
InvalidIds == {AllStmts[n].id : n \in {i \in 1..Len(AllStmts) : AllStmts[i].k = "invalid"}}
              \ ModuleWireIds

CountStmt(s) == Cardinality({n \in 1..Len(AllStmts) : AllStmts[n] = s})

\* C19: the final assignments of a module share one sentinel id for their
\* undriven bits; it is declared as a 1-bit wire and marked invalid exactly once,
\* and it is declared exactly when some assignment refers to it
InvalidSentinel ==
    Reassembled =>
        /\ Cardinality(SentinelIds) <= 1
        /\ InvalidIds = SentinelIds
        /\ \A id \in SentinelIds \cup InvalidIds :
               /\ CountStmt(Decl("wire", id, 1)) = 1
               /\ Cardinality(DeclsOf(id)) = 1
               /\ CountStmt(Invalid(id)) = 1

\* an undriven wire has been followed by two partly driven wires
InvalidSentinelWitness ==
    /\ Reassembled
    /\ SentinelIds # {}
    /\ \E i \in 1..NWires : \E j \in (i + 1)..NWires : \E k \in (j + 1)..NWires :
           /\ Module.wires[i] \in NonInputWires \ DrivenWires
           /\ \A w \in {Module.wires[j], Module.wires[k]} :
                  /\ w \in DrivenWires
                  /\ \E e \in FinalAssignments(w) : \E l \in Range(CatLeaves(e)) : l.op = "ref"

====
